---------------------------- MODULE Spec2Model ----------------------------
(***************************************************************************)
(* A model of the MIPS64 capability detector of libjpeg-turbo,             *)
(* simd/mips64/jsimdcpu.c: check_feature, parse_proc_cpuinfo and           *)
(* jpeg_simd_cpu_support, together with the part of the C library and of   *)
(* the operating system they use (malloc, fopen, fgets, feof, strchr,      *)
(* strncmp, strstr, isspace) and the resource /proc/cpuinfo.               *)
(*                                                                         *)
(* Characters are one-character strings; NUL is the terminator of a C      *)
(* string.  A C string is kept in the shape                                *)
(*     [text, pad, nl]  =  text \o FILL^pad \o (IF nl THEN "\n") \o NUL     *)
(* so that a line of more than a mebibyte is a value TLC can hold: text    *)
(* is an explicit sequence of characters, pad counts the FILL characters   *)
(* that follow it.  A pointer into a C string is a 0-based offset.         *)
(***************************************************************************)
EXTENDS Integers, Sequences, FiniteSets, TLC

(***************************************************************************)
(* Characters and C strings.                                               *)
(***************************************************************************)
NUL  == "NUL"
NL   == "\n"
FILL == "x"
NULL == -1

\* a string literal as a C string
Lit(chars) == [text |-> chars, pad |-> 0, nl |-> FALSE]

\* number of characters stored before the terminator that ends the array
StoredLen(s) == Len(s.text) + s.pad + (IF s.nl THEN 1 ELSE 0)

\* *(s + i); the array ends with the terminating NUL
CharAt(s, i) ==
  IF i < 0 \/ i >= StoredLen(s) THEN NUL
  ELSE IF i < Len(s.text) THEN s.text[i + 1]
  ELSE IF i < Len(s.text) + s.pad THEN FILL
  ELSE NL

\* isspace() in the C locale: space, \t, \n, \v, \f, \r
VT == "VT"
isspace(c) == c \in {" ", "\t", "\n", VT, "\f", "\r"}

\* strlen(s): offset of the first NUL
strlen(s) ==
  IF \E i \in 1..Len(s.text) : s.text[i] = NUL
  THEN (CHOOSE i \in 1..Len(s.text) :
          s.text[i] = NUL /\ \A j \in 1..(i - 1) : s.text[j] # NUL) - 1
  ELSE StoredLen(s)

\* strchr(s, c) != NULL for a character c other than NUL and FILL
strchr(s, c) ==
  \/ \E i \in 1..Len(s.text) :
        s.text[i] = c /\ \A j \in 1..i : s.text[j] # NUL
  \/ c = NL /\ s.nl /\ strlen(s) = StoredLen(s)

\* mutant: only the first n - 1 characters are compared
strncmp_Short(s, b, lit, n) ==
  IF \A i \in 0..(n - 2) : CharAt(s, b + i) = lit[i + 1] THEN 0 ELSE 1

\* strncmp(s + b, lit, n) for a literal of at least n characters holding no
\* NUL: 0 when the n characters agree, non-zero otherwise
strncmp(s, b, lit, n) ==
  IF \A i \in 0..(n - 1) : CharAt(s, b + i) = lit[i + 1] THEN 0 ELSE 1

\* needle occurs in s at offset p, before the terminator of s
OccursAt(s, p, needle) ==
  /\ p + strlen(needle) <= strlen(s)
  /\ \A i \in 0..(strlen(needle) - 1) : CharAt(s, p + i) = CharAt(needle, i)

\* strstr(s + b, needle): offset of the first occurrence at or after b, or
\* NULL; the scan goes up from b and stops at the first occurrence
RECURSIVE strstr(_, _, _)
strstr(s, b, needle) ==
  IF b + strlen(needle) > strlen(s) THEN NULL
  ELSE IF OccursAt(s, b, needle) THEN b
  ELSE strstr(s, b + 1, needle)

(***************************************************************************)
(* check_feature                                                           *)
(***************************************************************************)
KeyPhrase ==
  <<"A","S","E","s"," ","i","m","p","l","e","m","e","n","t","e","d">>
LoongsonMMI == <<"l","o","o","n","g","s","o","n","-","m","m","i">>

\* while (isspace(*buffer)) buffer++;
RECURSIVE SkipSpaces(_, _)
SkipSpaces(s, b) ==
  IF isspace(CharAt(s, b)) THEN SkipSpaces(s, b + 1) ELSE b

\* p > buffer && !isspace(*(p - 1))
PrecededByNonSpace(s, b, p) == p > b /\ ~isspace(CharAt(s, p - 1))

\* mutant: the character after the occurrence is not looked at
FollowedByNonSpace_Ignored(s, q) == FALSE

\* *p != 0 && !isspace(*p), p being the end of the occurrence
FollowedByNonSpace(s, q) == CharAt(s, q) # NUL /\ ~isspace(CharAt(s, q))

\* mutant: the search gives up at the first occurrence it rejects
MatchLoop_FirstOnly(s, b, feature) ==
  LET p == strstr(s, b, feature) IN
  IF p = NULL THEN FALSE
  ELSE IF PrecededByNonSpace(s, b, p) THEN FALSE
  ELSE ~FollowedByNonSpace(s, p + strlen(feature))

\* the while loop looking for 'feature' as a separate word
RECURSIVE MatchLoop(_, _, _)
MatchLoop(s, b, feature) ==
  LET p == strstr(s, b, feature) IN
  IF p = NULL THEN FALSE
  ELSE IF PrecededByNonSpace(s, b, p) THEN MatchLoop(s, b + 1, feature)
  ELSE LET q == p + strlen(feature) IN
       IF FollowedByNonSpace(s, q)
       THEN MatchLoop(s, b + 1, feature)
       ELSE TRUE

check_feature(buffer, feature) ==
  IF CharAt(feature, 0) = NUL THEN FALSE
  ELSE IF strncmp(buffer, 0, KeyPhrase, 16) # 0 THEN FALSE
  ELSE MatchLoop(buffer, SkipSpaces(buffer, 16), feature)


(***************************************************************************)
(* The environment: the resource /proc/cpuinfo and the allocator.          *)
(***************************************************************************)
InitBufSize == 1024
SOMEWHAT_SANE_PROC_CPUINFO_SIZE_LIMIT == 1024 * 1024
JSIMD_MMI == "JSIMD_MMI"

MaxLines   == 2    \* lines of the resource
MaxFailRun == 2    \* length of a run of failing allocation sizes

Min(a, b) == IF a < b THEN a ELSE b
Max(a, b) == IF a > b THEN a ELSE b

\* the buffer sizes 1024 * 2^k the allocator may be asked for, k = 0..10
RECURSIVE SizesFrom(_)
SizesFrom(n) ==
  IF n > SOMEWHAT_SANE_PROC_CPUINFO_SIZE_LIMIT THEN <<>>
  ELSE <<n>> \o SizesFrom(2 * n)
Sizes == SizesFrom(InitBufSize)

\* Lines of the resource, without their newline.  A line of n characters
\* (newline not counted) fits a buffer of bufsize bytes when n <= bufsize - 2.
MatchLine == [text |-> KeyPhrase \o <<":", " ">> \o LoongsonMMI, pad |-> 0]
PlainLine == [text |-> <<"c", "p", "u">>, pad |-> 0]
LongMatchLine ==
  [text |-> KeyPhrase \o <<":", " ">> \o LoongsonMMI \o <<" ">>,
   pad  |-> InitBufSize]
FitLine  == [text |-> <<>>, pad |-> InitBufSize - 2]
LongLine == [text |-> <<>>, pad |-> InitBufSize - 1]
OverLine == [text |-> <<>>, pad |-> SOMEWHAT_SANE_PROC_CPUINFO_SIZE_LIMIT - 1]
LineKinds ==
  {MatchLine, PlainLine, LongMatchLine, FitLine, LongLine, OverLine}

RECURSIVE SeqsUpTo(_, _)
SeqsUpTo(S, n) ==
  IF n = 0 THEN {<<>>}
  ELSE LET shorter == SeqsUpTo(S, n - 1)
       IN  shorter \cup {Append(q, x) : q \in shorter, x \in S}

\* finalNL: whether the last line ends with a newline
Files ==
  {[lines |-> <<>>, finalNL |-> FALSE]} \cup
  {[lines |-> q, finalNL |-> b] :
     q \in SeqsUpTo(LineKinds, MaxLines) \ {<<>>}, b \in BOOLEAN}

\* The sizes malloc refuses: none, the first n sizes, the last n sizes
\* (n <= MaxFailRun), or all of them.
NSizes == Len(Sizes)
AllocFailSets ==
  {{}} \cup {{Sizes[i] : i \in 1..NSizes}}
  \cup {{Sizes[i] : i \in 1..n} : n \in 1..MaxFailRun}
  \cup {{Sizes[i] : i \in (NSizes - n + 1)..NSizes} : n \in 1..MaxFailRun}

\* canOpen: whether fopen("/proc/cpuinfo", "r") succeeds
Envs ==
  {[file |-> f, canOpen |-> TRUE, allocFail |-> a] :
     f \in Files, a \in AllocFailSets}
  \cup
  {[file |-> [lines |-> <<>>, finalNL |-> FALSE], canOpen |-> FALSE,
    allocFail |-> a] : a \in AllocFailSets}

\* malloc(size) != NULL
malloc(e, size) == size \notin e.allocFail

\* line i (1-based) of file f as the characters the stream delivers
FileLine(f, i) ==
  [text |-> f.lines[i].text, pad |-> f.lines[i].pad,
   nl |-> (i < Len(f.lines) \/ f.finalNL)]

\* k characters of s from offset off on
Chunk(s, off, k) ==
  [text |-> SubSeq(s.text, off + 1, Min(off + k, Len(s.text))),
   pad  |-> Max(0, Min(off + k, Len(s.text) + s.pad) - Max(off, Len(s.text))),
   nl   |-> s.nl /\ off + k = StoredLen(s)]

\* fgets(buffer, n, fd) on file f with the stream at line st.ln (lines
\* consumed), offset st.off in it: whether it returns NULL (nothing read at
\* end of file), the characters stored and the stream afterwards.  Reading stops after a newline, after
\* n - 1 characters, or at end of file, which sets the end-of-file indicator.
fgets(f, st, n) ==
  IF st.ln >= Len(f.lines)
  THEN [null |-> TRUE, buf |-> Lit(<<>>), st |-> [st EXCEPT !.eof = TRUE]]
  ELSE LET s    == FileLine(f, st.ln + 1)
           rest == StoredLen(s) - st.off
           k    == Min(n - 1, rest)
           got  == Chunk(s, st.off, k)
           hitEOF == k < n - 1 /\ ~got.nl
       IN  IF k = 0 /\ hitEOF
           THEN [null |-> TRUE, buf |-> Lit(<<>>),
                 st |-> [st EXCEPT !.eof = TRUE]]
           ELSE [null |-> FALSE, buf |-> got,
                 st  |-> IF k = rest
                         THEN [st EXCEPT !.ln = st.ln + 1, !.off = 0,
                                         !.eof = st.eof \/ hitEOF]
                         ELSE [st EXCEPT !.off = st.off + k]]


(***************************************************************************)
(* The process.  build is its compile-time configuration; bufsize and      *)
(* simd_support are the locals of jpeg_simd_cpu_support, buffer and fd     *)
(* those of parse_proc_cpuinfo, parseRet the value parse_proc_cpuinfo      *)
(* returned to the loop of jpeg_simd_cpu_support.                          *)
(* History: tried lists the sizes parse_proc_cpuinfo was called with in    *)
(* the current call, opens counts its successful fopen calls, abandoned    *)
(* its attempts given up because a line did not fit, frees its calls of    *)
(* free and closes its calls of fclose, result is                          *)
(* the mask the latest completed call returned, called whether a call has  *)
(* completed, envChanged whether the environment changed since that call   *)
(* started.                                                                 *)
(* cfLine, cfFeature, cfState and cfFound are the arguments, the position  *)
(* and the result of a call of check_feature on its own.                   *)
(* tjCall is the latest use of the TurboJPEG API of turbojpeg.h (the        *)
(* function or table and its arguments), tjRet what it gave back.          *)
(***************************************************************************)
VARIABLES build, env, envChanged, pc, bufsize, simd_support, parseRet,
          buffer, fd, tried, opens, abandoned, frees, closes, result, called,
          cfLine, cfFeature, cfState, cfFound,
          tjCall, tjRet

vars == <<build, env, envChanged, pc, bufsize, simd_support, parseRet,
          buffer, fd, tried, opens, abandoned, frees, closes, result, called,
          cfLine, cfFeature, cfState, cfFound,
          tjCall, tjRet>>
tjVars == <<tjCall, tjRet>>
cfVars == <<cfLine, cfFeature, cfState, cfFound>>
probeVars == <<build, env, envChanged, pc, bufsize, simd_support, parseRet,
               buffer, fd, tried, opens, abandoned, frees, closes, result, called>>

\* tjCall and tjRet before the TurboJPEG API was used
NoCall == [fn |-> "none"]
NoRet  == [retval |-> 0]

\* fd when no stream is open (NULL, or closed by fclose)
NoStream == [open |-> FALSE, ln |-> 0, off |-> 0, eof |-> FALSE]

\* which of the macros __mips_loongson_vector_rev and __linux__ the build
\* defines
Builds == [mips_loongson_vector_rev : BOOLEAN, linux : BOOLEAN]

Init ==
  /\ build \in Builds
  /\ env \in Envs
  /\ envChanged = FALSE
  /\ pc = "idle"
  /\ bufsize = 0
  /\ simd_support = {}
  /\ parseRet = FALSE
  /\ buffer = NULL
  /\ fd = NoStream
  /\ tried = <<>>
  /\ opens = 0
  /\ abandoned = 0
  /\ frees = 0
  /\ closes = 0
  /\ result = {}
  /\ called = FALSE
  /\ cfLine = Lit(<<>>)
  /\ cfFeature = Lit(<<>>)
  /\ cfState = "unused"
  /\ cfFound = FALSE
  /\ tjCall = NoCall
  /\ tjRet = NoRet

\* The environment changes while no call is running: the allocator
\* refuses other sizes, the resource disappears or appears (empty), gains
\* a last line, loses its last line, or gains or loses its final newline.
EmptyFile == [lines |-> <<>>, finalNL |-> FALSE]
EnvChange ==
  /\ pc = "idle"
  /\ called
  /\ \/ \E a \in AllocFailSets \ {env.allocFail} :
          env' = [env EXCEPT !.allocFail = a]
     \/ /\ env.canOpen
        /\ env' = [env EXCEPT !.canOpen = FALSE, !.file = EmptyFile]
     \/ /\ ~env.canOpen
        /\ env' = [env EXCEPT !.canOpen = TRUE]
     \/ /\ env.canOpen
        /\ Len(env.file.lines) < MaxLines
        /\ \E l \in LineKinds, b \in BOOLEAN :
             env' = [env EXCEPT !.file = [lines |-> Append(env.file.lines, l),
                                          finalNL |-> b]]
     \/ /\ env.canOpen
        /\ Len(env.file.lines) > 1
        /\ \E b \in BOOLEAN :
             env' = [env EXCEPT !.file =
                       [lines |-> SubSeq(env.file.lines, 1,
                                         Len(env.file.lines) - 1),
                        finalNL |-> b]]
     \/ /\ env.canOpen
        /\ Len(env.file.lines) = 1
        /\ env' = [env EXCEPT !.file = EmptyFile]
     \/ /\ env.canOpen
        /\ Len(env.file.lines) > 0
        /\ env' = [env EXCEPT !.file.finalNL = ~env.file.finalNL]
  /\ envChanged' = TRUE
  /\ UNCHANGED <<build, pc, bufsize, simd_support, parseRet, buffer, fd,
                 tried, opens, abandoned, frees, closes, result, called, cfVars, tjVars>>

\* mutant: bufsize is a static that keeps its value from call to call
BufSizeAtEntry_Static == IF called THEN bufsize ELSE InitBufSize

\* the initial value of bufsize (line 100)
BufSizeAtEntry == InitBufSize

\* mutant: the mask of the first call is kept and returned by later calls
Call_Cached ==
  /\ pc = "idle"
  /\ tried' = <<>>
  /\ opens' = 0
  /\ abandoned' = 0
  /\ frees' = 0
  /\ closes' = 0
  /\ IF called
     THEN /\ simd_support' = result
          /\ pc' = "return"
          /\ UNCHANGED bufsize
     ELSE IF build.mips_loongson_vector_rev
     THEN /\ simd_support' = {JSIMD_MMI}
          /\ pc' = "return"
          /\ UNCHANGED bufsize
     ELSE IF build.linux
     THEN /\ bufsize' = InitBufSize
          /\ simd_support' = {}
          /\ pc' = "parse"
     ELSE /\ simd_support' = {}
          /\ pc' = "return"
          /\ UNCHANGED bufsize
  /\ UNCHANGED <<build, env, envChanged, parseRet, buffer, fd, result,
                 called, cfVars, tjVars>>

\* mutant: __linux__ is tested before __mips_loongson_vector_rev
Call_LinuxFirst ==
  /\ pc = "idle"
  /\ tried' = <<>>
  /\ opens' = 0
  /\ abandoned' = 0
  /\ frees' = 0
  /\ closes' = 0
  /\ IF build.linux
     THEN /\ bufsize' = InitBufSize
          /\ simd_support' = {}
          /\ pc' = "parse"
     ELSE IF build.mips_loongson_vector_rev
     THEN /\ simd_support' = {JSIMD_MMI}
          /\ pc' = "return"
          /\ UNCHANGED bufsize
     ELSE /\ simd_support' = {}
          /\ pc' = "return"
          /\ UNCHANGED bufsize
  /\ UNCHANGED <<build, env, envChanged, parseRet, buffer, fd, result,
                 called, cfVars, tjVars>>

\* jpeg_simd_cpu_support, from its entry to the while loop or the return
Call ==
  /\ pc = "idle"
  /\ tried' = <<>>
  /\ opens' = 0
  /\ abandoned' = 0
  /\ frees' = 0
  /\ closes' = 0
  /\ IF build.mips_loongson_vector_rev
     THEN /\ simd_support' = {} \cup {JSIMD_MMI}
          /\ pc' = "return"
          /\ UNCHANGED bufsize
     ELSE IF build.linux
     THEN /\ bufsize' = BufSizeAtEntry
          /\ simd_support' = {}
          /\ pc' = "parse"
     ELSE /\ simd_support' = {}
          /\ pc' = "return"
          /\ UNCHANGED bufsize
  /\ UNCHANGED <<build, env, envChanged, parseRet, buffer, fd, result,
                 called, cfVars, tjVars>>

\* mutant: the mask is not reset when an attempt starts
MaskAtParseEntry_Kept(mask) == mask

\* *simd_support = 0 at the entry of parse_proc_cpuinfo (line 70)
MaskAtParseEntry(mask) == {}

\* mutant: a failed allocation is reported like a resource read to its end
ParseEnter_FailTrue ==
  /\ pc = "parse"
  /\ tried' = Append(tried, bufsize)
  /\ simd_support' = MaskAtParseEntry(simd_support)
  /\ IF malloc(env, bufsize)
     THEN /\ buffer' = bufsize
          /\ pc' = "fopen"
          /\ UNCHANGED parseRet
     ELSE /\ buffer' = NULL
          /\ parseRet' = TRUE
          /\ pc' = "loop"
  /\ UNCHANGED <<build, env, envChanged, bufsize, fd, opens, abandoned,
                 frees, closes, result, called, cfVars, tjVars>>

\* parse_proc_cpuinfo(bufsize, &simd_support): malloc, the reset of the
\* mask, and the return of FALSE when the allocation failed
ParseEnter ==
  /\ pc = "parse"
  /\ tried' = Append(tried, bufsize)
  /\ simd_support' = MaskAtParseEntry(simd_support)
  /\ IF malloc(env, bufsize)
     THEN /\ buffer' = bufsize
          /\ pc' = "fopen"
          /\ UNCHANGED parseRet
     ELSE /\ buffer' = NULL
          /\ parseRet' = FALSE
          /\ pc' = "loop"
  /\ UNCHANGED <<build, env, envChanged, bufsize, fd, opens, abandoned,
                 frees, closes, result, called, cfVars, tjVars>>

\* mutant: a resource that cannot be opened is reported like a buffer
\* that is too small
ParseRetWithoutStream_False == FALSE

\* what parse_proc_cpuinfo returns when fopen gave no stream (line 90)
ParseRetWithoutStream == TRUE

\* mutant: without a stream parse_proc_cpuinfo returns before free(buffer)
Fopen_Leak ==
  /\ pc = "fopen"
  /\ IF env.canOpen
     THEN /\ fd' = [open |-> TRUE, ln |-> 0, off |-> 0, eof |-> FALSE]
          /\ opens' = opens + 1
          /\ pc' = "fgets"
          /\ UNCHANGED <<buffer, parseRet, frees>>
     ELSE /\ fd' = NoStream
          /\ parseRet' = ParseRetWithoutStream
          /\ pc' = "loop"
          /\ UNCHANGED <<buffer, frees, opens>>
  /\ UNCHANGED <<build, env, envChanged, bufsize, simd_support, tried,
                 abandoned, closes, result, called, cfVars, tjVars>>

\* fd = fopen("/proc/cpuinfo", "r"); without a stream: free(buffer) and
\* return TRUE
Fopen ==
  /\ pc = "fopen"
  /\ IF env.canOpen
     THEN /\ fd' = [open |-> TRUE, ln |-> 0, off |-> 0, eof |-> FALSE]
          /\ opens' = opens + 1
          /\ pc' = "fgets"
          /\ UNCHANGED <<buffer, parseRet, frees>>
     ELSE /\ fd' = NoStream
          /\ buffer' = NULL
          /\ frees' = frees + 1
          /\ parseRet' = ParseRetWithoutStream
          /\ pc' = "loop"
          /\ UNCHANGED opens
  /\ UNCHANGED <<build, env, envChanged, bufsize, simd_support, tried,
                 abandoned, closes, result, called, cfVars, tjVars>>

\* !strchr(buffer, '\n') && !feof(fd)
BufferTooSmall(buf, st) == ~strchr(buf, NL) /\ ~st.eof

\* mutant: the bit of another capability is set
MaskAfterLine_WrongFlag(mask, buf) ==
  IF check_feature(buf, Lit(LoongsonMMI))
  THEN mask \cup {"JSIMD_DSPR2"} ELSE mask

\* mutant: the mask is assigned instead of OR-ed
MaskAfterLine_Assigned(mask, buf) ==
  IF check_feature(buf, Lit(LoongsonMMI)) THEN {JSIMD_MMI} ELSE {}

\* *simd_support |= JSIMD_MMI when the line has the feature
MaskAfterLine(mask, buf) ==
  IF check_feature(buf, Lit(LoongsonMMI)) THEN mask \cup {JSIMD_MMI} ELSE mask

\* one turn of while (fgets(buffer, bufsize, fd)): the end of the loop
\* (fclose, free, return TRUE), the abandoned read (fclose, free, return
\* FALSE), or the check of the line
Fgets ==
  /\ pc = "fgets"
  /\ LET r == fgets(env.file, fd, bufsize) IN
     IF r.null
     THEN /\ fd' = NoStream
          /\ buffer' = NULL
          /\ parseRet' = TRUE
          /\ pc' = "loop"
          /\ frees' = frees + 1
          /\ closes' = closes + 1
          /\ UNCHANGED <<simd_support, abandoned>>
     ELSE IF BufferTooSmall(r.buf, r.st)
     THEN /\ fd' = NoStream
          /\ buffer' = NULL
          /\ parseRet' = FALSE
          /\ pc' = "loop"
          /\ abandoned' = abandoned + 1
          /\ frees' = frees + 1
          /\ closes' = closes + 1
          /\ UNCHANGED simd_support
     ELSE /\ fd' = r.st
          /\ simd_support' = MaskAfterLine(simd_support, r.buf)
          /\ UNCHANGED <<buffer, parseRet, pc, abandoned, frees, closes>>
  /\ UNCHANGED <<build, env, envChanged, bufsize, tried, opens, result,
                 called, cfVars, tjVars>>

\* mutant: the loop is left when bufsize reaches the limit
Loop_StopsAtLimit ==
  /\ pc = "loop"
  /\ IF parseRet
     THEN /\ pc' = "return"
          /\ UNCHANGED bufsize
     ELSE /\ bufsize' = bufsize * 2
          /\ pc' = IF bufsize * 2 >= SOMEWHAT_SANE_PROC_CPUINFO_SIZE_LIMIT
                   THEN "return" ELSE "parse"
  /\ UNCHANGED <<build, env, envChanged, simd_support, parseRet, buffer, fd,
                 tried, opens, abandoned, frees, closes, result, called, cfVars, tjVars>>

\* mutant: bufsize is not doubled after a FALSE
Loop_NoDoubling ==
  /\ pc = "loop"
  /\ IF parseRet
     THEN /\ pc' = "return"
          /\ UNCHANGED bufsize
     ELSE /\ bufsize' = bufsize
          /\ pc' = IF bufsize > SOMEWHAT_SANE_PROC_CPUINFO_SIZE_LIMIT
                   THEN "return" ELSE "parse"
  /\ UNCHANGED <<build, env, envChanged, simd_support, parseRet, buffer, fd,
                 tried, opens, abandoned, frees, closes, result, called, cfVars, tjVars>>

\* the while loop of jpeg_simd_cpu_support after parse_proc_cpuinfo
\* returned: leave it on TRUE; on FALSE double bufsize and leave it past
\* the limit
Loop ==
  /\ pc = "loop"
  /\ IF parseRet
     THEN /\ pc' = "return"
          /\ UNCHANGED bufsize
     ELSE /\ bufsize' = bufsize * 2
          /\ pc' = IF bufsize * 2 > SOMEWHAT_SANE_PROC_CPUINFO_SIZE_LIMIT
                   THEN "return" ELSE "parse"
  /\ UNCHANGED <<build, env, envChanged, simd_support, parseRet, buffer, fd,
                 tried, opens, abandoned, frees, closes, result, called, cfVars, tjVars>>

\* return simd_support;
Return ==
  /\ pc = "return"
  /\ result' = simd_support
  /\ called' = TRUE
  /\ envChanged' = FALSE
  /\ pc' = "idle"
  /\ UNCHANGED <<build, env, bufsize, simd_support, parseRet, buffer, fd,
                 tried, opens, abandoned, frees, closes, cfVars, tjVars>>

Next == EnvChange \/ Call \/ ParseEnter \/ Fopen \/ Fgets \/ Loop \/ Return

Spec == Init /\ [][Next]_vars


(***************************************************************************)
(* check_feature on its own: the line is the key phrase, or a near miss    *)
(* of it, followed by up to MaxPieces pieces, as fgets stores it (with or  *)
(* without the newline); the feature is "loongson-mmi" or the empty        *)
(* string.                                                                  *)
(***************************************************************************)
MaxPieces == 4

Heads  == {KeyPhrase, <<" ">> \o KeyPhrase, SubSeq(KeyPhrase, 1, 15)}
Pieces == {LoongsonMMI, <<" ">>, <<"\t">>, <<":">>, <<FILL>>, <<NUL>>}

RECURSIVE Bodies(_)
Bodies(n) ==
  IF n = 0 THEN {<<>>}
  ELSE LET shorter == Bodies(n - 1)
       IN  shorter \cup {q \o x : q \in shorter, x \in Pieces}

CFLines ==
  {[text |-> h \o q, pad |-> 0, nl |-> b] :
     h \in Heads, q \in Bodies(MaxPieces), b \in BOOLEAN}
CFFeatures == {Lit(LoongsonMMI), Lit(<<>>)}

InitCF ==
  /\ cfLine \in CFLines
  /\ cfFeature \in CFFeatures
  /\ cfState = "call"
  /\ cfFound = FALSE
  /\ build = [mips_loongson_vector_rev |-> FALSE, linux |-> TRUE]
  /\ env = [file |-> EmptyFile, canOpen |-> FALSE, allocFail |-> {}]
  /\ envChanged = FALSE
  /\ pc = "idle"
  /\ bufsize = 0
  /\ simd_support = {}
  /\ parseRet = FALSE
  /\ buffer = NULL
  /\ fd = NoStream
  /\ tried = <<>>
  /\ opens = 0
  /\ abandoned = 0
  /\ frees = 0
  /\ closes = 0
  /\ result = {}
  /\ called = FALSE
  /\ tjCall = NoCall
  /\ tjRet = NoRet

\* check_feature(cfLine, cfFeature)
CheckFeature ==
  /\ cfState = "call"
  /\ cfFound' = check_feature(cfLine, cfFeature)
  /\ cfState' = "done"
  /\ UNCHANGED <<cfLine, cfFeature, probeVars, tjVars>>

NextCF == CheckFeature

SpecCF == InitCF /\ [][NextCF]_vars


(***************************************************************************)
(* The TurboJPEG API of turbojpeg.h: its enumerations, its constant        *)
(* tables and its macros.  A C array is a function on 0..(n - 1).          *)
(***************************************************************************)
CArray(seq) == [i \in 0..(Len(seq) - 1) |-> seq[i + 1]]

TJ_NUMSAMP == 6
TJSAMP_444  == 0
TJSAMP_422  == 1
TJSAMP_420  == 2
TJSAMP_GRAY == 3
TJSAMP_440  == 4
TJSAMP_411  == 5
TJSAMP == 0..(TJ_NUMSAMP - 1)

\* mutant: the entries of 4:2:2 and 4:4:0 are exchanged
tjMCUWidth_Swapped == CArray(<<8, 8, 16, 8, 16, 32>>)

tjMCUWidth == CArray(<<8, 16, 16, 8, 8, 32>>)

tjMCUHeight == CArray(<<8, 8, 16, 8, 16, 8>>)

\* the iMCU sizes listed with tjMCUWidth and tjMCUHeight: 8x8 for no
\* subsampling or grayscale, 16x8 for 4:2:2, 8x16 for 4:4:0, 16x16 for
\* 4:2:0, 32x8 for 4:1:1
iMCUSizes ==
  [s \in TJSAMP |->
     IF s \in {TJSAMP_444, TJSAMP_GRAY} THEN <<8, 8>>
     ELSE IF s = TJSAMP_422 THEN <<16, 8>>
     ELSE IF s = TJSAMP_440 THEN <<8, 16>>
     ELSE IF s = TJSAMP_420 THEN <<16, 16>>
     ELSE <<32, 8>>]

\* the horizontal subsampling factor: 1 in the case of 4:4:4, grayscale, or
\* 4:4:0; 2 in the case of 4:2:2 or 4:2:0; 4 in the case of 4:1:1
HorizSubsampFactor(subsamp) ==
  IF subsamp \in {TJSAMP_444, TJSAMP_GRAY, TJSAMP_440} THEN 1
  ELSE IF subsamp \in {TJSAMP_422, TJSAMP_420} THEN 2
  ELSE 4

\* the vertical subsampling factor: 1 in the case of 4:4:4, 4:2:2,
\* grayscale, or 4:1:1; 2 in the case of 4:2:0 or 4:4:0
VertSubsampFactor(subsamp) ==
  IF subsamp \in {TJSAMP_444, TJSAMP_422, TJSAMP_GRAY, TJSAMP_411} THEN 1
  ELSE 2

TJ_NUMPF == 12
TJPF_RGB  == 0
TJPF_BGR  == 1
TJPF_RGBX == 2
TJPF_BGRX == 3
TJPF_XBGR == 4
TJPF_XRGB == 5
TJPF_GRAY == 6
TJPF_RGBA == 7
TJPF_BGRA == 8
TJPF_ABGR == 9
TJPF_ARGB == 10
TJPF_CMYK == 11
TJPF == 0..(TJ_NUMPF - 1)

\* mutant: the red offset of TJPF_BGR is one past its last byte
tjRedOffset_PastEnd == CArray(<<0, 3, 0, 2, 3, 1, -1, 0, 2, 3, 1, -1>>)

tjRedOffset == CArray(<<0, 2, 0, 2, 3, 1, -1, 0, 2, 3, 1, -1>>)

\* mutant: TJPF_XBGR has its green component where its red component is
tjGreenOffset_Clash == CArray(<<1, 1, 1, 1, 3, 2, -1, 1, 1, 2, 2, -1>>)

tjGreenOffset == CArray(<<1, 1, 1, 1, 2, 2, -1, 1, 1, 2, 2, -1>>)

\* mutant: TJPF_ABGR has the blue offset of TJPF_ARGB
tjBlueOffset_ABGR == CArray(<<2, 0, 2, 0, 1, 3, -1, 2, 0, 3, 3, -1>>)

tjBlueOffset == CArray(<<2, 0, 2, 0, 1, 3, -1, 2, 0, 1, 3, -1>>)

tjAlphaOffset == CArray(<<-1, -1, -1, -1, -1, -1, -1, 3, 3, 0, 0, -1>>)

\* mutant: TJPF_RGB is given the pixel size of TJPF_RGBX
tjPixelSize_RGB4 == CArray(<<4, 3, 4, 4, 4, 4, 1, 4, 4, 4, 4, 4>>)

tjPixelSize == CArray(<<3, 3, 4, 4, 4, 4, 1, 4, 4, 4, 4, 4>>)

\* The pixel formats as enum TJPF documents them: the bytes of a pixel,
\* the order of the components and whether that order runs from the lowest
\* to the highest byte address (up) or from the highest to the lowest.
TJPFLayout(pf) ==
  IF pf = TJPF_RGB THEN [bytes |-> 3, order |-> <<"R", "G", "B">>, up |-> TRUE]
  ELSE IF pf = TJPF_BGR
  THEN [bytes |-> 3, order |-> <<"B", "G", "R">>, up |-> TRUE]
  ELSE IF pf = TJPF_RGBX
  THEN [bytes |-> 4, order |-> <<"R", "G", "B">>, up |-> TRUE]
  ELSE IF pf = TJPF_BGRX
  THEN [bytes |-> 4, order |-> <<"B", "G", "R">>, up |-> TRUE]
  ELSE IF pf = TJPF_XBGR
  THEN [bytes |-> 4, order |-> <<"R", "G", "B">>, up |-> FALSE]
  ELSE [bytes |-> 4, order |-> <<"B", "G", "R">>, up |-> FALSE]

\* "This is the same as TJPF_RGBX, except that ... the X component is
\* guaranteed to be 0xFF": the format an alpha format is the same as
XFormatOf(pf) ==
  IF pf = TJPF_RGBA THEN TJPF_RGBX
  ELSE IF pf = TJPF_BGRA THEN TJPF_BGRX
  ELSE IF pf = TJPF_ABGR THEN TJPF_XBGR
  ELSE TJPF_XRGB

\* the largest int: int has 32 bits
INT_MAX == (2 ^ 30 - 1) * 2 + 1

\* a & b for a >= 0 and b >= 0, bit by bit
RECURSIVE BitAnd(_, _)
BitAnd(a, b) ==
  IF a = 0 \/ b = 0 THEN 0
  ELSE (a % 2) * (b % 2) + 2 * BitAnd(a \div 2, b \div 2)

\* the 31 low bits of an int in two's complement
Low31(a) == IF a >= 0 THEN a ELSE (a + INT_MAX) + 1

\* a & b on int operands: the sign bit is set when both are negative
AndInt(a, b) ==
  IF a < 0 /\ b < 0
  THEN (BitAnd(Low31(a), Low31(b)) - INT_MAX) - 1
  ELSE BitAnd(Low31(a), Low31(b))

\* ~a on an int operand
NotInt(a) == (-a) - 1

\* mutant: the width is raised by 4 before the low bits are cleared
TJPAD_Plus4(width) == AndInt(width + 4, NotInt(3))

\* #define TJPAD(width)  (((width) + 3) & (~3)), for width + 3 <= INT_MAX
TJPAD(width) == AndInt(width + 3, NotInt(3))

(***************************************************************************)
(* The format model: the tables read for a subsampling option or a pixel   *)
(* format, and the plane geometry of a planar YUV image.  turbojpeg.h      *)
(* declares tjPlaneWidth, tjPlaneHeight and tjBufSizeYUV2 and describes    *)
(* them in "YUV Image Format Notes"; their bodies are in turbojpeg.c.      *)
(***************************************************************************)
MaxDim == 35   \* largest image width and height

\* the value padded to the nearest multiple of n
PadTo(value, n) == ((value + n - 1) \div n) * n

\* the number of planes: "The JPEG or YUV image will contain no
\* chrominance components" for TJSAMP_GRAY
NumPlanes(subsamp) == IF subsamp = TJSAMP_GRAY THEN 1 ELSE 3

\* mutant: the luminance plane is padded to the iMCU width
tjPlaneWidth_iMCU(componentID, width, subsamp) ==
  IF width < 1 \/ subsamp \notin TJSAMP
     \/ componentID < 0 \/ componentID >= NumPlanes(subsamp)
  THEN -1
  ELSE LET pw == PadTo(width, tjMCUWidth[subsamp])
       IN  IF componentID = 0 THEN pw
           ELSE pw \div HorizSubsampFactor(subsamp)

tjPlaneWidth(componentID, width, subsamp) ==
  IF width < 1 \/ subsamp \notin TJSAMP
     \/ componentID < 0 \/ componentID >= NumPlanes(subsamp)
  THEN -1
  ELSE LET pw == PadTo(width, HorizSubsampFactor(subsamp))
       IN  IF componentID = 0 THEN pw
           ELSE pw \div HorizSubsampFactor(subsamp)

tjPlaneHeight(componentID, height, subsamp) ==
  IF height < 1 \/ subsamp \notin TJSAMP
     \/ componentID < 0 \/ componentID >= NumPlanes(subsamp)
  THEN -1
  ELSE LET ph == PadTo(height, VertSubsampFactor(subsamp))
       IN  IF componentID = 0 THEN ph
           ELSE ph \div VertSubsampFactor(subsamp)

\* the row alignments tried: unpadded, and the 4 bytes of X Video
Aligns == {1, 4}

\* the planes of a YUV image of the given width, row alignment, height and
\* subsampling, as tjBufSizeYUV2 lays them out: for each plane its width,
\* its bytes per row and its height; retval is the size of the buffer
RECURSIVE SumSizes(_, _, _)
SumSizes(stride, ph, n) ==
  IF n = 0 THEN 0 ELSE stride[n - 1] * ph[n - 1] + SumSizes(stride, ph, n - 1)

tjBufSizeYUV2(width, align, height, subsamp) ==
  IF width < 1 \/ height < 1 \/ subsamp \notin TJSAMP
  THEN [retval |-> -1]
  ELSE LET planes == 0..(NumPlanes(subsamp) - 1)
           pw == [c \in planes |-> tjPlaneWidth(c, width, subsamp)]
           ph == [c \in planes |-> tjPlaneHeight(c, height, subsamp)]
           stride == [c \in planes |-> PadTo(pw[c], align)]
       IN  [retval |-> SumSizes(stride, ph, NumPlanes(subsamp)),
            pw |-> pw, ph |-> ph, stride |-> stride]

\* the uses of the format model: a subsampling option looked up in
\* tjMCUWidth and tjMCUHeight, a pixel format looked up in the offset and
\* size tables, and tjBufSizeYUV2
MCUReads   == [fn : {"tjMCUWidth"}, subsamp : TJSAMP]
PixelReads == [fn : {"tjPixelSize"}, pixelFormat : TJPF]
YUVCalls ==
  [fn : {"tjBufSizeYUV2"}, width : 0..MaxDim, align : Aligns,
   height : 0..MaxDim, subsamp : 0..TJ_NUMSAMP]

\* the state of the detector while the TurboJPEG API is looked at
DetectorIdle ==
  /\ build = [mips_loongson_vector_rev |-> FALSE, linux |-> TRUE]
  /\ env = [file |-> EmptyFile, canOpen |-> FALSE, allocFail |-> {}]
  /\ envChanged = FALSE
  /\ pc = "idle"
  /\ bufsize = 0
  /\ simd_support = {}
  /\ parseRet = FALSE
  /\ buffer = NULL
  /\ fd = NoStream
  /\ tried = <<>>
  /\ opens = 0
  /\ abandoned = 0
  /\ frees = 0
  /\ closes = 0
  /\ result = {}
  /\ called = FALSE
  /\ cfLine = Lit(<<>>)
  /\ cfFeature = Lit(<<>>)
  /\ cfState = "unused"
  /\ cfFound = FALSE

InitTJ ==
  /\ tjCall \in MCUReads \cup PixelReads \cup YUVCalls
  /\ tjRet = NoRet
  /\ DetectorIdle

\* tjMCUWidth[subsamp] and tjMCUHeight[subsamp]
ReadMCUSize ==
  /\ tjCall.fn = "tjMCUWidth"
  /\ tjRet = NoRet
  /\ tjRet' = [width  |-> tjMCUWidth[tjCall.subsamp],
               height |-> tjMCUHeight[tjCall.subsamp]]
  /\ UNCHANGED <<tjCall, probeVars, cfVars>>

\* the entries of a pixel format in tjRedOffset, tjGreenOffset,
\* tjBlueOffset, tjAlphaOffset and tjPixelSize
ReadPixelFormat ==
  /\ tjCall.fn = "tjPixelSize"
  /\ tjRet = NoRet
  /\ tjRet' = [red   |-> tjRedOffset[tjCall.pixelFormat],
               green |-> tjGreenOffset[tjCall.pixelFormat],
               blue  |-> tjBlueOffset[tjCall.pixelFormat],
               alpha |-> tjAlphaOffset[tjCall.pixelFormat],
               size  |-> tjPixelSize[tjCall.pixelFormat]]
  /\ UNCHANGED <<tjCall, probeVars, cfVars>>

BufSizeYUV2 ==
  /\ tjCall.fn = "tjBufSizeYUV2"
  /\ tjRet = NoRet
  /\ tjRet' = tjBufSizeYUV2(tjCall.width, tjCall.align, tjCall.height,
                            tjCall.subsamp)
  /\ UNCHANGED <<tjCall, probeVars, cfVars>>

NextTJ == ReadMCUSize \/ ReadPixelFormat \/ BufSizeYUV2

SpecTJ == InitTJ /\ [][NextTJ]_vars

(***************************************************************************)
(* Scaling in the decompressor.  TJSCALED is the macro of turbojpeg.h;     *)
(* turbojpeg.h declares tjGetScalingFactors and tjDecompress2 and          *)
(* describes them, their bodies are in turbojpeg.c.                        *)
(***************************************************************************)
MaxJpegWidth  == 100   \* largest width of a JPEG image
MaxJpegHeight == 2     \* largest height of a JPEG image

\* a / b in C for b > 0: the quotient truncated toward zero, which for
\* a < 0 is the quotient rounded up
CDiv(a, b) == IF a >= 0 THEN a \div b ELSE (a + (b - 1)) \div b

\* mutant: the scaled value is rounded down
TJSCALED_Floor(dimension, scalingFactor) ==
  CDiv(dimension * scalingFactor.num, scalingFactor.denom)

\* #define TJSCALED(dimension, scalingFactor)
\*   (((dimension) * scalingFactor.num + scalingFactor.denom - 1) /
\*    scalingFactor.denom)
\* for operands whose intermediate results are representable as int
TJSCALED(dimension, scalingFactor) ==
  CDiv(dimension * scalingFactor.num + scalingFactor.denom - 1,
       scalingFactor.denom)

\* tjscalingfactor
SF(num, denom) == [num |-> num, denom |-> denom]

\* the list tjGetScalingFactors returns: the supported factors in lowest
\* terms, largest first, from 2/1 to 1/8
tjGetScalingFactors ==
  <<SF(2, 1), SF(15, 8), SF(7, 4), SF(13, 8), SF(3, 2), SF(11, 8), SF(5, 4),
    SF(9, 8), SF(1, 1), SF(7, 8), SF(3, 4), SF(5, 8), SF(1, 2), SF(3, 8),
    SF(1, 4), SF(1, 8)>>

\* the scaled dimension fits the desired one; a desired dimension of 0
\* leaves the axis out of consideration
FitsDesired(jpegDim, desired, scalingFactor) ==
  desired = 0 \/ TJSCALED(jpegDim, scalingFactor) <= desired

\* the index of the first factor of the list, from i on, whose scaled
\* width and height fit the desired ones; 0 when there is none
RECURSIVE FirstFit(_, _, _, _, _)
FirstFit(i, jpegWidth, jpegHeight, width, height) ==
  IF i > Len(tjGetScalingFactors) THEN 0
  ELSE IF /\ FitsDesired(jpegWidth, width, tjGetScalingFactors[i])
          /\ FitsDesired(jpegHeight, height, tjGetScalingFactors[i])
  THEN i
  ELSE FirstFit(i + 1, jpegWidth, jpegHeight, width, height)

\* tjDecompress2 on a JPEG image of jpegWidth x jpegHeight with the desired
\* width and height: the scaling factor used and the size of the
\* destination image, or -1 when no factor scales the image down enough
tjDecompress2(jpegWidth, jpegHeight, width, height) ==
  LET i == FirstFit(1, jpegWidth, jpegHeight, width, height) IN
  IF i = 0 THEN [retval |-> -1]
  ELSE [retval |-> 0,
        scalingFactor |-> tjGetScalingFactors[i],
        scaledWidth   |-> TJSCALED(jpegWidth, tjGetScalingFactors[i]),
        scaledHeight  |-> TJSCALED(jpegHeight, tjGetScalingFactors[i])]

DecompressCalls ==
  [fn : {"tjDecompress2"},
   jpegWidth : 1..MaxJpegWidth, jpegHeight : 1..MaxJpegHeight,
   width : 0..MaxJpegWidth, height : 0..(2 * MaxJpegHeight)]

InitSF ==
  /\ tjCall \in DecompressCalls
  /\ tjRet = NoRet
  /\ DetectorIdle

Decompress2 ==
  /\ tjCall.fn = "tjDecompress2"
  /\ tjRet = NoRet
  /\ tjRet' = tjDecompress2(tjCall.jpegWidth, tjCall.jpegHeight,
                            tjCall.width, tjCall.height)
  /\ UNCHANGED <<tjCall, probeVars, cfVars>>

NextSF == Decompress2

SpecSF == InitSF /\ [][NextSF]_vars


(***************************************************************************)
(* Compression and lossless transformation.  turbojpeg.h defines the       *)
(* flags, the transform operations and the transform options and declares  *)
(* tjCompress2 and tjTransform with their description; their bodies are in *)
(* turbojpeg.c.  Of a call only the JPEG destination buffer, the geometry  *)
(* of the image and the options TJXOPT_PERFECT and TJXOPT_TRIM are         *)
(* followed: the cropping region is unused, the other options are 0 and    *)
(* there is no custom filter.                                              *)
(***************************************************************************)
TJFLAG_NOREALLOC == 1024

TJ_NUMXOP == 8
TJXOP_NONE       == 0
TJXOP_HFLIP      == 1
TJXOP_VFLIP      == 2
TJXOP_TRANSPOSE  == 3
TJXOP_TRANSVERSE == 4
TJXOP_ROT90      == 5
TJXOP_ROT180     == 6
TJXOP_ROT270     == 7
TJXOP == 0..(TJ_NUMXOP - 1)

TJXOPT_PERFECT == 1
TJXOPT_TRIM    == 2

\* value & bit != 0 for a single-bit value bit
HasBit(value, bit) == (value \div bit) % 2 = 1

MaxBytes   == 2    \* largest buffer and largest JPEG image, in bytes
MaxXWidth  == 33   \* largest width of a JPEG image to transform
MaxXHeight == 17   \* largest height of a JPEG image to transform

\* the addresses of the buffer the caller allocated and of a buffer the
\* engine allocates
CallerBuf == 1
EngineBuf == 2

\* mutant: TJFLAG_NOREALLOC is not looked at
ReallocDisabled_Never(flags) == FALSE

\* the flags disable the (re)allocation of the JPEG buffer
ReallocDisabled(flags) == HasBit(flags, TJFLAG_NOREALLOC)

\* The JPEG destination buffer after an image of imageSize bytes was
\* produced for the buffer at address buf with the declared size capacity:
\* the address and the size reported back, the bytes written to the
\* caller's buffer, whether the engine allocated a buffer and whether it
\* released the caller's.  moved tells whether a buffer that has to grow is
\* replaced by a new allocation.
WriteJPEG(buf, capacity, flags, imageSize, moved) ==
  IF ReallocDisabled(flags)
  THEN IF buf = NULL \/ imageSize > capacity
       THEN [retval |-> -1, errorStr |-> "buffer too small",
             buf |-> buf, size |-> capacity,
             written |-> IF buf = NULL THEN 0 ELSE Min(imageSize, capacity),
             allocated |-> FALSE, released |-> FALSE]
       ELSE [retval |-> 0, errorStr |-> "No error",
             buf |-> buf, size |-> imageSize, written |-> imageSize,
             allocated |-> FALSE, released |-> FALSE]
  ELSE IF buf = NULL
       THEN [retval |-> 0, errorStr |-> "No error",
             buf |-> EngineBuf, size |-> imageSize, written |-> 0,
             allocated |-> TRUE, released |-> FALSE]
       ELSE IF imageSize <= capacity
       THEN [retval |-> 0, errorStr |-> "No error",
             buf |-> buf, size |-> imageSize, written |-> imageSize,
             allocated |-> FALSE, released |-> FALSE]
       ELSE [retval |-> 0, errorStr |-> "No error",
             buf |-> IF moved THEN EngineBuf ELSE buf, size |-> imageSize,
             written |-> IF moved THEN capacity ELSE imageSize,
             allocated |-> TRUE, released |-> moved]

\* tjCompress2: the JPEG image goes to *jpegBuf
tjCompress2(c) ==
  WriteJPEG(c.jpegBuf, c.jpegSize, c.flags, c.imageSize, c.moved)

\* mutant: a rotation by 90 degrees is taken for one by 270 degrees
UntransformableEdges_Rot(op) ==
  IF op \in {TJXOP_NONE, TJXOP_TRANSPOSE} THEN {}
  ELSE IF op \in {TJXOP_HFLIP, TJXOP_ROT90} THEN {"right"}
  ELSE IF op \in {TJXOP_VFLIP, TJXOP_ROT270} THEN {"bottom"}
  ELSE {"right", "bottom"}

\* the edges of the source image whose partial iMCUs the operation cannot
\* transform, as enum TJXOP documents them
UntransformableEdges(op) ==
  IF op \in {TJXOP_NONE, TJXOP_TRANSPOSE} THEN {}
  ELSE IF op \in {TJXOP_HFLIP, TJXOP_ROT270} THEN {"right"}
  ELSE IF op \in {TJXOP_VFLIP, TJXOP_ROT90} THEN {"bottom"}
  ELSE {"right", "bottom"}

\* the edges of the image that have partial iMCUs: "If the image's width
\* or height is not evenly divisible by the iMCU size"
PartialEdges(width, height, subsamp) ==
  (IF width % tjMCUWidth[subsamp] # 0 THEN {"right"} ELSE {})
  \cup (IF height % tjMCUHeight[subsamp] # 0 THEN {"bottom"} ELSE {})

\* the transform is imperfect
Imperfect(op, width, height, subsamp) ==
  UntransformableEdges(op) \cap PartialEdges(width, height, subsamp) # {}

\* mutant: the partial iMCUs are kept
TrimmedExtent_Kept(extent, mcu) == extent

\* an extent without its partial iMCU
TrimmedExtent(extent, mcu) == extent - (extent % mcu)

\* the operations that exchange width and height
Transposing == {TJXOP_TRANSPOSE, TJXOP_TRANSVERSE, TJXOP_ROT90, TJXOP_ROT270}

\* tjTransform with one transform: the error when TJXOPT_PERFECT is set
\* and the transform is imperfect, before any output; otherwise the size
\* of the destination image, without the partial iMCUs that cannot be
\* transformed when TJXOPT_TRIM is set, and the destination buffer
tjTransform(c) ==
  IF /\ HasBit(c.options, TJXOPT_PERFECT)
     /\ Imperfect(c.op, c.width, c.height, c.subsamp)
  THEN [retval |-> -1, errorStr |-> "Transform is not perfect",
        buf |-> c.dstBuf, size |-> c.dstSize, written |-> 0,
        allocated |-> FALSE, released |-> FALSE, width |-> 0, height |-> 0]
  ELSE LET trim == HasBit(c.options, TJXOPT_TRIM)
           w == IF trim /\ "right" \in UntransformableEdges(c.op)
                THEN TrimmedExtent(c.width, tjMCUWidth[c.subsamp])
                ELSE c.width
           h == IF trim /\ "bottom" \in UntransformableEdges(c.op)
                THEN TrimmedExtent(c.height, tjMCUHeight[c.subsamp])
                ELSE c.height
       IN  [width  |-> IF c.op \in Transposing THEN h ELSE w,
            height |-> IF c.op \in Transposing THEN w ELSE h]
           @@ WriteJPEG(c.dstBuf, c.dstSize, c.flags, c.imageSize, c.moved)

\* the JPEG destination buffers and images tried: no buffer or the
\* caller's, of 1..MaxBytes bytes, for an image of 1..MaxBytes bytes
CompressCalls ==
  [fn : {"tjCompress2"}, jpegBuf : {NULL, CallerBuf}, jpegSize : 1..MaxBytes,
   flags : {0, TJFLAG_NOREALLOC}, imageSize : 1..MaxBytes, moved : BOOLEAN]

\* the transforms of a JPEG image of one of the given widths and heights,
\* with the given destination buffers
TransformCalls(widths, heights, subsamps, bufs, flagss, sizes) ==
  [fn : {"tjTransform"}, width : widths, height : heights,
   subsamp : subsamps, op : TJXOP,
   options : {0, TJXOPT_PERFECT, TJXOPT_TRIM, TJXOPT_PERFECT + TJXOPT_TRIM},
   dstBuf : bufs, dstSize : sizes, flags : flagss,
   imageSize : sizes, moved : {FALSE} \cup {b \in BOOLEAN : bufs # {NULL}}]

\* transforms of images of every size and subsampling into a buffer the
\* engine allocates
InitXF ==
  /\ tjCall \in TransformCalls(1..MaxXWidth, 1..MaxXHeight, TJSAMP,
                               {NULL}, {0}, {1})
  /\ tjRet = NoRet
  /\ DetectorIdle

\* compressions, and transforms of 4:4:4 images 8 high and 8 or 9 wide,
\* with every destination buffer
InitBuf ==
  /\ tjCall \in CompressCalls
                \cup TransformCalls({8, 9}, {8}, {TJSAMP_444},
                                    {NULL, CallerBuf},
                                    {0, TJFLAG_NOREALLOC}, 1..MaxBytes)
  /\ tjRet = NoRet
  /\ DetectorIdle

Compress2 ==
  /\ tjCall.fn = "tjCompress2"
  /\ tjRet = NoRet
  /\ tjRet' = tjCompress2(tjCall)
  /\ UNCHANGED <<tjCall, probeVars, cfVars>>

Transform ==
  /\ tjCall.fn = "tjTransform"
  /\ tjRet = NoRet
  /\ tjRet' = tjTransform(tjCall)
  /\ UNCHANGED <<tjCall, probeVars, cfVars>>

NextXF == Transform

SpecXF == InitXF /\ [][NextXF]_vars

NextBuf == Compress2 \/ Transform

SpecBuf == InitBuf /\ [][NextBuf]_vars


(***************************************************************************)
(* The macros TJPAD and TJSCALED and the bit-flags of turbojpeg.h, as a    *)
(* caller evaluates them on int operands.                                  *)
(***************************************************************************)
TJFLAG_BOTTOMUP      == 2
TJFLAG_FASTUPSAMPLE  == 256
TJFLAG_FASTDCT       == 2048

\* mutant: TJFLAG_ACCURATEDCT shares its bits with TJFLAG_NOREALLOC and
\* TJFLAG_FASTDCT
TJFLAG_ACCURATEDCT_Shared == TJFLAG_NOREALLOC + TJFLAG_FASTDCT

TJFLAG_ACCURATEDCT   == 4096
TJFLAG_STOPONWARNING == 8192
TJFLAG_PROGRESSIVE   == 16384
TJFLAG_LIMITSCANS    == 32768

TJXOPT_CROP        == 4
TJXOPT_GRAY        == 8
TJXOPT_NOOUTPUT    == 16
TJXOPT_PROGRESSIVE == 32
TJXOPT_COPYNONE    == 64

\* the flags of the functions that take a flags argument
TJFLAGS ==
  {TJFLAG_BOTTOMUP, TJFLAG_FASTUPSAMPLE, TJFLAG_NOREALLOC, TJFLAG_FASTDCT,
   TJFLAG_ACCURATEDCT, TJFLAG_STOPONWARNING, TJFLAG_PROGRESSIVE,
   TJFLAG_LIMITSCANS}

\* the options of tjtransform.options
TJXOPTS ==
  {TJXOPT_PERFECT, TJXOPT_TRIM, TJXOPT_CROP, TJXOPT_GRAY, TJXOPT_NOOUTPUT,
   TJXOPT_PROGRESSIVE, TJXOPT_COPYNONE}

\* a | b for a >= 0 and b >= 0, bit by bit
RECURSIVE BitOr(_, _)
BitOr(a, b) ==
  IF a = 0 THEN b
  ELSE IF b = 0 THEN a
  ELSE (IF a % 2 = 1 \/ b % 2 = 1 THEN 1 ELSE 0)
       + 2 * BitOr(a \div 2, b \div 2)

\* "the bitwise OR of one or more of the flags": f1 | f2 | ...
RECURSIVE OrAll(_)
OrAll(S) ==
  IF S = {} THEN 0
  ELSE LET f == CHOOSE x \in S : TRUE IN BitOr(f, OrAll(S \ {f}))

MaxNum   == 16   \* largest numerator of a scaling factor
MaxDenom == 8    \* largest denominator of a scaling factor

\* (dimension) * scalingFactor.num + scalingFactor.denom leaves the range
\* of int: the behaviour of TJSCALED is undefined
ScaledOverflows(dimension, scalingFactor) ==
  dimension > (INT_MAX - scalingFactor.denom) \div scalingFactor.num

\* the value of TJSCALED when int arithmetic wraps modulo 2^32, computed on
\* the 16-bit halves of dimension
ScaledWrapped(dimension, scalingFactor) ==
  LET lo0 == (dimension % 65536) * scalingFactor.num
             + scalingFactor.denom - 1
      hi0 == (dimension \div 65536) * scalingFactor.num + lo0 \div 65536
      lo  == lo0 % 65536
      hi  == hi0 % 65536
      sum == IF hi >= 32768 THEN (hi - 65536) * 65536 + lo
             ELSE hi * 65536 + lo
  IN  CDiv(sum, scalingFactor.denom)

\* what an evaluation of TJSCALED(dimension, scalingFactor) can produce:
\* its value, and on overflow either the wrapped value or a trap
TJSCALEDOutcomes(dimension, scalingFactor) ==
  IF ScaledOverflows(dimension, scalingFactor)
  THEN {[trap |-> FALSE,
         value |-> ScaledWrapped(dimension, scalingFactor)],
        [trap |-> TRUE, value |-> 0]}
  ELSE {[trap |-> FALSE, value |-> TJSCALED(dimension, scalingFactor)]}

\* the operands tried: small ones, the largest dimension of a JPEG image
\* and the ones next to INT_MAX and to its quotients
ScaledDims ==
  (0..MaxDim) \cup {65535, INT_MAX \div MaxNum, INT_MAX \div 2,
                    INT_MAX \div 2 + 1, INT_MAX - MaxDenom, INT_MAX - 1,
                    INT_MAX}
PadWidths ==
  (0..MaxDim) \cup {65535} \cup {INT_MAX - 3 - k : k \in 0..4}

MacroCalls ==
  [fn : {"TJSCALED"}, dimension : ScaledDims,
   scalingFactor : [num : 1..MaxNum, denom : 1..MaxDenom]]
  \cup [fn : {"TJPAD"}, width : PadWidths]
  \cup [fn : {"flags"}, chosen : SUBSET TJFLAGS]
  \cup [fn : {"options"}, chosen : SUBSET TJXOPTS]

InitMac ==
  /\ tjCall \in MacroCalls
  /\ tjRet = NoRet
  /\ DetectorIdle

Scaled ==
  /\ tjCall.fn = "TJSCALED"
  /\ tjRet = NoRet
  /\ tjRet' \in TJSCALEDOutcomes(tjCall.dimension, tjCall.scalingFactor)
  /\ UNCHANGED <<tjCall, probeVars, cfVars>>

\* the width is padded, and the padded width again
Pad ==
  /\ tjCall.fn = "TJPAD"
  /\ tjRet = NoRet
  /\ tjRet' = [padded |-> TJPAD(tjCall.width),
               again  |-> TJPAD(TJPAD(tjCall.width))]
  /\ UNCHANGED <<tjCall, probeVars, cfVars>>

OrFlags ==
  /\ tjCall.fn \in {"flags", "options"}
  /\ tjRet = NoRet
  /\ tjRet' = [value |-> OrAll(tjCall.chosen)]
  /\ UNCHANGED <<tjCall, probeVars, cfVars>>

NextMac == Scaled \/ Pad \/ OrFlags

SpecMac == InitMac /\ [][NextMac]_vars


(***************************************************************************)
(* The detector and check_feature side by side: a behaviour is either one  *)
(* of calls of jpeg_simd_cpu_support in an environment or one call of      *)
(* check_feature on a line.                                                *)
(***************************************************************************)
\* the number of times the condition of the while loop of check_feature is
\* evaluated, the search starting at offset b
RECURSIVE MatchLoopTurns(_, _, _)
MatchLoopTurns(s, b, feature) ==
  LET p == strstr(s, b, feature) IN
  IF p = NULL THEN 1
  ELSE IF \/ PrecededByNonSpace(s, b, p)
          \/ FollowedByNonSpace(s, p + strlen(feature))
  THEN 1 + MatchLoopTurns(s, b + 1, feature)
  ELSE 1

InitTerm == Init \/ InitCF

NextTerm == (cfState = "unused" /\ Next) \/ NextCF

SpecTerm == InitTerm /\ [][NextTerm]_vars


(***************************************************************************)
(* Properties of jpeg_simd_cpu_support and parse_proc_cpuinfo (Spec).      *)
(***************************************************************************)
\* the build probes the resource at run time
Probing == ~build.mips_loongson_vector_rev /\ build.linux

Masks == {{}, {JSIMD_MMI}}

\* the attempts of the current call whose buffer was allocated
ReadAttempts == {i \in 1..Len(tried) : malloc(env, tried[i])}

\* every size up to the limit was tried, the attempt with the largest
\* buffer read the resource, and every attempt that read it was abandoned
CeilingExceeded ==
  /\ pc = "return"
  /\ Len(tried) = NSizes
  /\ NSizes \in ReadAttempts
  /\ abandoned = Cardinality(ReadAttempts)

\* C1: in every environment the mask a call of jpeg_simd_cpu_support is
\* about to return, and the mask it returned, is 0 or exactly JSIMD_MMI,
\* and the call is at one of its ordinary positions.
C1_NoError ==
  /\ pc \in {"idle", "parse", "fopen", "fgets", "loop", "return"}
  /\ (pc = "return" => simd_support \in Masks)
  /\ (called => result \in Masks)

\* a call returned 0 after malloc had failed at every size up to the limit
C1_Witness ==
  /\ pc = "idle" /\ called /\ ~envChanged /\ Probing
  /\ Len(tried) = NSizes
  /\ ReadAttempts = {}
  /\ result = {}

\* C2: when the size ceiling is exceeded the mask returned is 0, whatever
\* the resource holds.
C2_ZeroPastCeiling == CeilingExceeded => simd_support = {}

\* C6: an attempt whose line lacks its newline before end of file is
\* abandoned with FALSE, its buffer freed and its stream closed; bufsize is
\* doubled after a FALSE; an attempt starts with the mask 0 and a stream
\* opened at the first line.
C6_Step ==
  /\ (pc = "fgets" =>
        LET r == fgets(env.file, fd, bufsize) IN
        (~r.null /\ ~strchr(r.buf, NL) /\ ~r.st.eof)
          => (pc' = "loop" /\ parseRet' = FALSE /\ buffer' = NULL
              /\ ~fd'.open))
  /\ (pc = "loop" /\ ~parseRet => bufsize' = 2 * bufsize)
  /\ (pc = "loop" /\ pc' = "parse" => ~parseRet)
  /\ (pc = "parse" => simd_support' = {})
  /\ (pc = "fopen" /\ pc' = "fgets" =>
        /\ fd' = [open |-> TRUE, ln |-> 0, off |-> 0, eof |-> FALSE]
        /\ buffer' = bufsize
        /\ simd_support' = {})
C6_WholeReadRetry == [][C6_Step]_vars

\* a later attempt is about to read the first line, which has the feature
\* and was read by the abandoned attempt before it
C6_Witness ==
  /\ pc = "fgets" /\ abandoned >= 1
  /\ fd.ln = 0 /\ simd_support = {}
  /\ Len(env.file.lines) = 2
  /\ env.file.lines[1] = MatchLine

\* C7 as stated: when the resource cannot be opened, parse_proc_cpuinfo
\* returns TRUE with the mask 0 on the first attempt, there is no retry,
\* and jpeg_simd_cpu_support returns 0.
C7_AbsentFirstAttempt ==
  (Probing /\ ~env.canOpen /\ pc # "idle") =>
     /\ Len(tried) <= 1
     /\ (pc = "loop" => parseRet /\ simd_support = {})
     /\ (pc = "return" => simd_support = {})

\* C7 as amended: when the resource cannot be opened, an attempt whose
\* buffer was allocated returns TRUE with the mask 0, an attempt is
\* followed by another only when its allocation failed, and the call
\* returns 0.
C7_AbsentDegrades ==
  (Probing /\ ~env.canOpen /\ pc # "idle") =>
     /\ opens = 0
     /\ (pc = "loop" /\ malloc(env, bufsize) => parseRet /\ simd_support = {})
     /\ (pc = "loop" /\ ~malloc(env, bufsize) => ~parseRet)
     /\ \A i \in 1..(Len(tried) - 1) : ~malloc(env, tried[i])
     /\ (pc = "return" => simd_support = {})

\* the first attempt found no resource and returned TRUE
C7_Witness ==
  /\ Probing /\ ~env.canOpen
  /\ pc = "loop" /\ parseRet
  /\ tried = <<InitBufSize>>
  /\ simd_support = {}

C9_Pure ==
  [][(pc = "return" /\ called /\ ~envChanged) => result' = result]_vars

\* a second call in an unchanged environment returns after abandoned
\* attempts with the capability found
C9_Witness ==
  /\ pc = "return" /\ called /\ ~envChanged
  /\ abandoned >= 1
  /\ simd_support = {JSIMD_MMI}

\* C10: a build with __mips_loongson_vector_rev returns JSIMD_MMI, and a
\* build with neither that macro nor __linux__ returns 0, without calling
\* parse_proc_cpuinfo, malloc or fopen.
C10_StaticBuilds ==
  (~Probing) =>
     /\ pc \in {"idle", "return"}
     /\ tried = <<>> /\ opens = 0 /\ abandoned = 0
     /\ buffer = NULL /\ ~fd.open
     /\ LET fixed == IF build.mips_loongson_vector_rev
                     THEN {JSIMD_MMI} ELSE {}
        IN  /\ (pc = "return" => simd_support = fixed)
            /\ (called => result = fixed)

\* a Linux build with the capability fixed at compile time has returned
C10_Witness ==
  /\ build.mips_loongson_vector_rev /\ build.linux
  /\ called /\ result = {JSIMD_MMI} /\ tried = <<>>

(***************************************************************************)
(* Properties of check_feature (SpecCF).                                   *)
(***************************************************************************)
BeginsWithKey(s) == \A i \in 1..Len(KeyPhrase) : CharAt(s, i - 1) = KeyPhrase[i]

\* the offsets at which "loongson-mmi" occurs in the C string s
Occurrences(s) ==
  {p \in 0..(strlen(s) - Len(LoongsonMMI)) :
     \A i \in 1..Len(LoongsonMMI) : CharAt(s, p + i - 1) = LoongsonMMI[i]}

AfterOcc(s, p) == CharAt(s, p + Len(LoongsonMMI))
SpaceBefore(s, p) == p > 0 /\ isspace(CharAt(s, p - 1))
EndAfter(s, p) == AfterOcc(s, p) = NUL \/ isspace(AfterOcc(s, p))

\* check_feature(cfLine, "loongson-mmi") has returned for a line that
\* begins with the key phrase
CheckedKeyLine ==
  /\ cfState = "done"
  /\ cfFeature = Lit(LoongsonMMI)
  /\ BeginsWithKey(cfLine)

\* C3: on a line that begins with the key phrase and in which every
\* occurrence of the feature follows a non-space character, check_feature
\* returns FALSE.  Stated for the lines of the claim's example, "ASEs
\* implemented: xloongson-mmi", where that character is one of the
\* remainder behind the key phrase.
C3_RejectsPrecededByNonSpace ==
  (CheckedKeyLine /\ \A p \in Occurrences(cfLine) :
                        p > Len(KeyPhrase) /\ ~SpaceBefore(cfLine, p))
     => ~cfFound

\* C4: on a line that begins with the key phrase and in which every
\* occurrence of the feature is followed by a character that is neither
\* whitespace nor the end of the string, check_feature returns FALSE.
C4_RejectsFollowedByNonSpace ==
  (CheckedKeyLine /\ \A p \in Occurrences(cfLine) : ~EndAfter(cfLine, p))
     => ~cfFound

\* the only occurrences follow whitespace and are followed by a letter
C4_Witness ==
  /\ CheckedKeyLine
  /\ Occurrences(cfLine) # {}
  /\ \A p \in Occurrences(cfLine) :
        SpaceBefore(cfLine, p) /\ AfterOcc(cfLine, p) = FILL
  /\ ~cfFound

\* C5: on a line that begins with the key phrase and holds an occurrence
\* of the feature between whitespace and whitespace or the end of the
\* string, check_feature returns TRUE, whatever occurrences precede it.
C5_LaterWholeWordFound ==
  (CheckedKeyLine /\ \E p \in Occurrences(cfLine) :
                        SpaceBefore(cfLine, p) /\ EndAfter(cfLine, p))
     => cfFound

\* "loongson-mmix loongson-mmi": the first occurrence is followed by a
\* letter, the second is a whole word, and the feature is found
C5_Witness ==
  /\ CheckedKeyLine
  /\ cfFound
  /\ \E p, q \in Occurrences(cfLine) :
        /\ p < q
        /\ Occurrences(cfLine) = {p, q}
        /\ AfterOcc(cfLine, p) = FILL
        /\ SpaceBefore(cfLine, q) /\ EndAfter(cfLine, q)

\* the key phrase occurs in the C string s at offset p
KeyAt(s, p) ==
  /\ p + Len(KeyPhrase) <= strlen(s)
  /\ \A i \in 1..Len(KeyPhrase) : CharAt(s, p + i - 1) = KeyPhrase[i]

\* C25: check_feature returns FALSE for every line whose first 16
\* characters are not exactly "ASEs implemented", whatever follows them,
\* even when the line holds the feature as a whole word or the key phrase
\* further on; and it returns FALSE for an empty feature on every line.
C25_KeyPhraseRequired ==
  cfState = "done" =>
    /\ (~BeginsWithKey(cfLine) => ~cfFound)
    /\ (strlen(cfFeature) = 0 => ~cfFound)

\* " ASEs implemented ... loongson-mmi": the key phrase begins at the
\* second character and the feature is a whole word; not found
C25_Witness ==
  /\ cfState = "done"
  /\ cfFeature = Lit(LoongsonMMI)
  /\ ~BeginsWithKey(cfLine)
  /\ KeyAt(cfLine, 1)
  /\ \E p \in Occurrences(cfLine) : SpaceBefore(cfLine, p) /\ EndAfter(cfLine, p)
  /\ ~cfFound

(***************************************************************************)
(* Properties of the format model (SpecTJ).                                *)
(***************************************************************************)
\* the tables were read for a subsampling option
MCURead == tjCall.fn = "tjMCUWidth" /\ tjRet # NoRet

\* the tables were read for a pixel format
PixelRead == tjCall.fn = "tjPixelSize" /\ tjRet # NoRet

\* tjBufSizeYUV2 returned the planes of an image
PlanesLaidOut == tjCall.fn = "tjBufSizeYUV2" /\ tjRet # NoRet /\ tjRet.retval # -1

\* v is the smallest multiple of n that is at least x
RoundedUp(v, x, n) == v % n = 0 /\ v >= x /\ v - x < n

\* C15: for every image width and height >= 1 and every subsampling
\* option, the luminance plane width (height) is the image width (height)
\* rounded up to the nearest multiple of the horizontal (vertical)
\* subsampling factor, each chrominance plane width (height) is the
\* luminance plane width (height) divided by that factor, and a row
\* alignment of 4 pads each row to TJPAD of the plane width; a 35 x 35
\* image with 4:2:2 has a 36 x 35 luminance plane and 18 x 35 chrominance
\* planes, with rows of 36 and 20 bytes under a row alignment of 4.
C15_PlaneDimensions ==
  PlanesLaidOut =>
    LET hf == HorizSubsampFactor(tjCall.subsamp)
        vf == VertSubsampFactor(tjCall.subsamp)
    IN  /\ RoundedUp(tjRet.pw[0], tjCall.width, hf)
        /\ RoundedUp(tjRet.ph[0], tjCall.height, vf)
        /\ \A c \in (DOMAIN tjRet.pw) \ {0} :
              /\ tjRet.pw[c] * hf = tjRet.pw[0]
              /\ tjRet.ph[c] * vf = tjRet.ph[0]
        /\ (tjCall.align = 4 =>
              \A c \in DOMAIN tjRet.pw : tjRet.stride[c] = TJPAD(tjRet.pw[c]))
        /\ (tjCall.align = 1 =>
              \A c \in DOMAIN tjRet.pw : tjRet.stride[c] = tjRet.pw[c])
        /\ (tjCall.width = 35 /\ tjCall.height = 35
            /\ tjCall.subsamp = TJSAMP_422 =>
              /\ tjRet.pw = CArray(<<36, 18, 18>>)
              /\ tjRet.ph = CArray(<<35, 35, 35>>)
              /\ (tjCall.align = 4 => tjRet.stride = CArray(<<36, 20, 20>>)))

\* the planes of a 35 x 35 image with 4:2:2 and a row alignment of 4
C15_Witness ==
  /\ PlanesLaidOut
  /\ tjCall.width = 35 /\ tjCall.height = 35
  /\ tjCall.subsamp = TJSAMP_422 /\ tjCall.align = 4
  /\ tjRet.stride[1] = 20

\* the subsampling factors the claim lists: 1x1 for 4:4:4 and grayscale,
\* 2x1 for 4:2:2, 2x2 for 4:2:0, 1x2 for 4:4:0, 4x1 for 4:1:1
ListedFactors ==
  CArray(<< <<1, 1>>, <<2, 1>>, <<2, 2>>, <<1, 1>>, <<1, 2>>, <<4, 1>> >>)

\* the iMCU sizes the claim lists at the indices TJSAMP_444, _422, _420,
\* _GRAY, _440, _411
ListedMCUSizes ==
  CArray(<< <<8, 8>>, <<16, 8>>, <<16, 16>>, <<8, 8>>, <<8, 16>>, <<32, 8>> >>)

\* C16: for each of the 6 subsampling options tjMCUWidth is 8 times the
\* horizontal subsampling factor and tjMCUHeight 8 times the vertical one,
\* the factors being those listed, and the sizes are the documented iMCU
\* sizes 8x8, 16x8, 16x16, 8x8, 8x16 and 32x8.
C16_MCUSizes ==
  MCURead =>
    LET s == tjCall.subsamp IN
    /\ <<HorizSubsampFactor(s), VertSubsampFactor(s)>> = ListedFactors[s]
    /\ tjRet.width = 8 * HorizSubsampFactor(s)
    /\ tjRet.height = 8 * VertSubsampFactor(s)
    /\ <<tjRet.width, tjRet.height>> = iMCUSizes[s]
    /\ <<tjRet.width, tjRet.height>> = ListedMCUSizes[s]

\* the tables were read for 4:4:0, whose iMCU is 8 wide and 16 high
C16_Witness ==
  /\ MCURead
  /\ tjCall.subsamp = TJSAMP_440
  /\ tjRet = [width |-> 8, height |-> 16]

\* the offsets read for the pixel format
Offsets == <<tjRet.red, tjRet.green, tjRet.blue, tjRet.alpha>>
Defined == {i \in 1..4 : Offsets[i] # -1}

\* C17: every entry of tjRedOffset, tjGreenOffset, tjBlueOffset and
\* tjAlphaOffset is -1 or an offset o with 0 <= o < tjPixelSize[f].
C17_OffsetsInPixel ==
  PixelRead =>
    \A i \in 1..4 : Offsets[i] = -1 \/ Offsets[i] \in 0..(tjRet.size - 1)

\* TJPF_BGR was read: its red component is in the last of its 3 bytes
C17_Witness ==
  /\ PixelRead
  /\ tjCall.pixelFormat = TJPF_BGR
  /\ tjRet.red = tjRet.size - 1
  /\ tjRet.alpha = -1

\* C18 as stated: tjPixelSize[f] is the number of offsets defined for f.
C18_SizeIsChannelCount ==
  PixelRead => tjRet.size = Cardinality(Defined)

\* the formats whose components fill the pixel
FullFormats ==
  {TJPF_RGB, TJPF_BGR, TJPF_RGBA, TJPF_BGRA, TJPF_ABGR, TJPF_ARGB}

\* C18 as amended: tjPixelSize[f] is at least the number of offsets
\* defined for f, and equals it exactly for TJPF_RGB, TJPF_BGR and the four
\* alpha formats; the four X formats have 3 offsets in 4 bytes, TJPF_GRAY
\* none in 1 byte and TJPF_CMYK none in 4 bytes.
C18_SizeCoversChannels ==
  PixelRead =>
    LET f == tjCall.pixelFormat IN
    /\ tjRet.size >= Cardinality(Defined)
    /\ (tjRet.size = Cardinality(Defined) <=> f \in FullFormats)
    /\ (f \in {TJPF_RGBX, TJPF_BGRX, TJPF_XBGR, TJPF_XRGB} =>
          tjRet.size = 4 /\ Cardinality(Defined) = 3)
    /\ (f = TJPF_GRAY => tjRet.size = 1 /\ Defined = {})
    /\ (f = TJPF_CMYK => tjRet.size = 4 /\ Defined = {})

\* TJPF_RGBX was read: 3 offsets are defined and the pixel has 4 bytes
C18_Witness ==
  /\ PixelRead
  /\ tjCall.pixelFormat = TJPF_RGBX
  /\ Cardinality(Defined) = 3
  /\ tjRet.size = 4

AlphaFormats == {TJPF_RGBA, TJPF_BGRA, TJPF_ABGR, TJPF_ARGB}

\* C19: the red, green and blue offsets are all defined or all -1, all -1
\* only for TJPF_GRAY and TJPF_CMYK; the alpha offset is defined only for
\* TJPF_RGBA, TJPF_BGRA, TJPF_ABGR and TJPF_ARGB, so for no 3-byte format;
\* the offsets defined for one format are pairwise distinct.
C19_OffsetsAgreeWithLayout ==
  PixelRead =>
    LET f == tjCall.pixelFormat IN
    /\ \/ {1, 2, 3} \subseteq Defined
       \/ {1, 2, 3} \cap Defined = {}
    /\ ({1, 2, 3} \cap Defined = {} <=> f \in {TJPF_GRAY, TJPF_CMYK})
    /\ (4 \in Defined <=> f \in AlphaFormats)
    /\ (tjRet.size = 3 => 4 \notin Defined)
    /\ \A i, j \in Defined : i # j => Offsets[i] # Offsets[j]

\* TJPF_XBGR was read: three distinct offsets and no alpha offset
C19_Witness ==
  /\ PixelRead
  /\ tjCall.pixelFormat = TJPF_XBGR
  /\ Defined = {1, 2, 3}
  /\ Cardinality({Offsets[i] : i \in Defined}) = 3

\* the offset of a component in a pixel laid out as enum TJPF documents
Position(order, ch) == CHOOSE i \in 1..Len(order) : order[i] = ch
DocOffset(layout, ch) ==
  IF layout.up THEN Position(layout.order, ch) - 1
  ELSE layout.bytes - Position(layout.order, ch)

\* C20: an alpha format has the pixel size and the red, green and blue
\* offsets of the X format it is documented to be the same as, and its
\* alpha offset is the one byte of the 4 that format leaves unused; the
\* red, green and blue offsets of every RGB format follow the byte order of
\* its documentation (TJPF_XBGR: R, G, B at 3, 2, 1).
C20_AlphaMatchesX ==
  (PixelRead /\ tjCall.pixelFormat \notin {TJPF_GRAY, TJPF_CMYK}) =>
    LET f == tjCall.pixelFormat
        x == IF f \in AlphaFormats THEN XFormatOf(f) ELSE f
        layout == TJPFLayout(x)
    IN  /\ tjRet.red = DocOffset(layout, "R")
        /\ tjRet.green = DocOffset(layout, "G")
        /\ tjRet.blue = DocOffset(layout, "B")
        /\ tjRet.size = layout.bytes
        /\ (f = TJPF_XBGR =>
              <<tjRet.red, tjRet.green, tjRet.blue>> = <<3, 2, 1>>)
        /\ (f \in AlphaFormats =>
              /\ tjRet.size = tjPixelSize[x]
              /\ tjRet.red = tjRedOffset[x]
              /\ tjRet.green = tjGreenOffset[x]
              /\ tjRet.blue = tjBlueOffset[x]
              /\ tjAlphaOffset[x] = -1
              /\ (0..3) \ {tjRedOffset[x], tjGreenOffset[x], tjBlueOffset[x]}
                   = {tjRet.alpha})

\* TJPF_ABGR was read: alpha is byte 0, the byte TJPF_XBGR leaves unused
C20_Witness ==
  /\ PixelRead
  /\ tjCall.pixelFormat = TJPF_ABGR
  /\ tjRet.alpha = 0
  /\ <<tjRet.red, tjRet.green, tjRet.blue>> = <<3, 2, 1>>

(***************************************************************************)
(* Properties of scaling in the decompressor (SpecSF).                     *)
(***************************************************************************)
\* tjDecompress2 has returned
Decompressed == tjCall.fn = "tjDecompress2" /\ tjRet # NoRet

\* ceil(dim * f) <= desired, or the axis imposes no bound
WithinBound(dim, desired, f) ==
  desired = 0 \/ dim * f.num <= desired * f.denom

\* factor g is larger than factor f
Larger(g, f) == g.num * f.denom > f.num * g.denom

\* s is ceil(dim * f)
IsCeil(s, dim, f) == (s - 1) * f.denom < dim * f.num /\ dim * f.num <= s * f.denom

SupportedFactors ==
  {tjGetScalingFactors[i] : i \in 1..Len(tjGetScalingFactors)}

\* C14: the factor tjDecompress2 uses is the largest supported factor f
\* with ceil(native width * f) <= desired width and ceil(native height * f)
\* <= desired height, an axis whose desired dimension is 0 imposing no
\* bound, and the destination image has those scaled dimensions; the call
\* fails only when no supported factor fits; for a native width of 100, a
\* desired width of 60 and a desired height of 0 the factor is 1/2, the
\* largest whose scaled width (50) is <= 60.
C14_LargestFittingFactor ==
  Decompressed =>
    LET jw == tjCall.jpegWidth
        jh == tjCall.jpegHeight
        fitting == {g \in SupportedFactors :
                      /\ WithinBound(jw, tjCall.width, g)
                      /\ WithinBound(jh, tjCall.height, g)}
    IN  /\ (tjRet.retval = -1 <=> fitting = {})
        /\ (tjRet.retval = 0 =>
              LET f == tjRet.scalingFactor IN
              /\ f \in fitting
              /\ \A g \in fitting : ~Larger(g, f)
              /\ IsCeil(tjRet.scaledWidth, jw, f)
              /\ IsCeil(tjRet.scaledHeight, jh, f))
        /\ (jw = 100 /\ tjCall.width = 60 /\ tjCall.height = 0 =>
              /\ tjRet.retval = 0
              /\ tjRet.scalingFactor = SF(1, 2)
              /\ tjRet.scaledWidth = 50)

\* a JPEG image 100 wide was decompressed with a desired width of 60 and a
\* desired height of 0: the factor is 1/2 and the image 50 wide
C14_Witness ==
  /\ Decompressed
  /\ tjCall.jpegWidth = 100 /\ tjCall.width = 60 /\ tjCall.height = 0
  /\ tjRet.retval = 0
  /\ tjRet.scalingFactor = SF(1, 2)
  /\ tjRet.scaledWidth = 50

(***************************************************************************)
(* Properties of compression and transformation (SpecBuf, SpecXF).         *)
(***************************************************************************)
\* tjCompress2 or tjTransform has returned
Compressed  == tjCall.fn = "tjCompress2" /\ tjRet # NoRet
Transformed == tjCall.fn = "tjTransform" /\ tjRet # NoRet

\* the JPEG destination buffer the caller passed and the size declared
CallBuf  == IF tjCall.fn = "tjCompress2" THEN tjCall.jpegBuf ELSE tjCall.dstBuf
CallSize == IF tjCall.fn = "tjCompress2" THEN tjCall.jpegSize ELSE tjCall.dstSize

\* C11: with TJFLAG_NOREALLOC a call of tjCompress2 or tjTransform leaves
\* the address of the caller's JPEG buffer as it was, allocates and
\* releases nothing, and, when the image produced is larger than the size
\* the caller declared, returns -1 with no byte written past that size.
C11_NoReallocKeepsBuffer ==
  ((Compressed \/ Transformed) /\ HasBit(tjCall.flags, TJFLAG_NOREALLOC)) =>
     /\ tjRet.buf = CallBuf
     /\ ~tjRet.allocated
     /\ ~tjRet.released
     /\ tjRet.written <= CallSize
     /\ (tjCall.imageSize > CallSize => tjRet.retval = -1)

\* a perfect transform with TJFLAG_NOREALLOC produced 2 bytes for the
\* caller's buffer of 1 byte: error, the buffer where it was, 1 byte written
C11_Witness ==
  /\ Transformed
  /\ tjCall.flags = TJFLAG_NOREALLOC
  /\ tjCall.dstBuf = CallerBuf /\ tjCall.dstSize = 1 /\ tjCall.imageSize = 2
  /\ tjRet.errorStr = "buffer too small"
  /\ tjRet.retval = -1 /\ tjRet.buf = CallerBuf /\ tjRet.written = 1

\* C12: a horizontal flip of an image whose width is not a multiple of the
\* iMCU width of its subsampling fails with TJXOPT_PERFECT; with
\* TJXOPT_TRIM instead it succeeds and the destination image has the width
\* of the source rounded down to a multiple of the iMCU width, and its
\* height.
C12_HFlipPerfectOrTrim ==
  (/\ Transformed
   /\ tjCall.op = TJXOP_HFLIP
   /\ tjCall.width % tjMCUWidth[tjCall.subsamp] # 0) =>
     LET mcuw == tjMCUWidth[tjCall.subsamp] IN
     /\ (HasBit(tjCall.options, TJXOPT_PERFECT) => tjRet.retval = -1)
     /\ (tjCall.options = TJXOPT_TRIM =>
           /\ tjRet.retval = 0
           /\ tjRet.width % mcuw = 0
           /\ tjRet.width <= tjCall.width
           /\ tjCall.width - tjRet.width < mcuw
           /\ tjRet.height = tjCall.height)

\* a 4:2:2 image 33 wide was flipped with TJXOPT_TRIM: 32 wide
C12_Witness ==
  /\ Transformed
  /\ tjCall.op = TJXOP_HFLIP /\ tjCall.subsamp = TJSAMP_422
  /\ tjCall.width = 33 /\ tjCall.options = TJXOPT_TRIM
  /\ tjRet.retval = 0 /\ tjRet.width = 32

\* the classification of the claim
ClassifiedImperfect(op, width, height, subsamp) ==
  LET right  == width % tjMCUWidth[subsamp] # 0
      bottom == height % tjMCUHeight[subsamp] # 0
  IN  IF op \in {TJXOP_NONE, TJXOP_TRANSPOSE} THEN FALSE
      ELSE IF op \in {TJXOP_HFLIP, TJXOP_ROT270} THEN right
      ELSE IF op \in {TJXOP_VFLIP, TJXOP_ROT90} THEN bottom
      ELSE right \/ bottom

\* C13: for every width, height and subsampling, tjTransform with
\* TJXOPT_PERFECT fails exactly when the transform is imperfect, and
\* without it never: identity and transpose are perfect always, horizontal
\* flip and rotate-270 imperfect exactly when the width is not a multiple
\* of the iMCU width, vertical flip and rotate-90 exactly when the height
\* is not a multiple of the iMCU height, transverse transpose and
\* rotate-180 exactly when either is not.
C13_PerfectClassification ==
  Transformed =>
    LET imperfect == ClassifiedImperfect(tjCall.op, tjCall.width,
                                         tjCall.height, tjCall.subsamp)
    IN  /\ (HasBit(tjCall.options, TJXOPT_PERFECT) =>
              (tjRet.retval = -1 <=> imperfect))
        /\ (~HasBit(tjCall.options, TJXOPT_PERFECT) => tjRet.retval = 0)

\* a 4:1:1 image 33 wide and 8 high was rotated by 90 degrees with
\* TJXOPT_PERFECT: the partial iMCUs on the right edge do not matter
C13_Witness ==
  /\ Transformed
  /\ tjCall.op = TJXOP_ROT90 /\ tjCall.subsamp = TJSAMP_411
  /\ tjCall.width = 33 /\ tjCall.height = 8
  /\ tjCall.options = TJXOPT_PERFECT
  /\ tjRet.retval = 0 /\ tjRet.width = 8 /\ tjRet.height = 33

(***************************************************************************)
(* Properties of the macros and the bit-flags (SpecMac).                   *)
(***************************************************************************)
\* a macro was evaluated, a set of flags or options was OR-ed
ScaledDone == tjCall.fn = "TJSCALED" /\ tjRet # NoRet
PadDone    == tjCall.fn = "TJPAD" /\ tjRet # NoRet
OrDone     == tjCall.fn \in {"flags", "options"} /\ tjRet # NoRet

\* ceil(dim * f) as a number: the quotient and the remainder of dim by
\* f.denom are scaled apart
CeilScaled(dim, f) ==
  (dim \div f.denom) * f.num + ((dim % f.denom) * f.num + f.denom - 1) \div f.denom

\* ceil(dim * f) is representable as int
CeilFits(dim, f) ==
  dim \div f.denom
    <= (INT_MAX - ((dim % f.denom) * f.num + f.denom - 1) \div f.denom) \div f.num

\* C21: TJSCALED(dimension, scalingFactor) equals ceil(dimension * num /
\* denom) for every dimension >= 0 and every scaling factor with num >= 1
\* and denom >= 1, the macro being evaluated in int arithmetic of 32 bits.
C21_ScaledIsCeil ==
  ScaledDone =>
    /\ ~tjRet.trap
    /\ CeilFits(tjCall.dimension, tjCall.scalingFactor)
    /\ tjRet.value = CeilScaled(tjCall.dimension, tjCall.scalingFactor)

\* C22: for every width >= 0 with width + 3 representable as int, TJPAD
\* gives the smallest multiple of 4 that is at least width: TJPAD(width) is
\* a multiple of 4, 0 <= TJPAD(width) - width <= 3, and padding the padded
\* width changes nothing.
C22_PadSmallestMultiple ==
  PadDone =>
    /\ tjRet.padded % 4 = 0
    /\ tjRet.padded - tjCall.width \in 0..3
    /\ \A m \in tjCall.width..(tjRet.padded - 1) : m % 4 # 0
    /\ tjRet.again = tjRet.padded

\* the largest width that can be padded but one, INT_MAX - 4, was padded
\* to INT_MAX - 3, a multiple of 4
C22_Witness ==
  /\ PadDone
  /\ tjCall.width = INT_MAX - 4
  /\ tjRet.padded = INT_MAX - 3
  /\ tjRet.again = INT_MAX - 3

\* v has exactly one bit set
SingleBit(v) == \E k \in 0..30 : v = 2 ^ k

\* the constants the chosen ones were taken from
Constants == IF tjCall.fn = "flags" THEN TJFLAGS ELSE TJXOPTS

\* C23: the 8 TJFLAG_ constants are distinct values with one bit set each,
\* and so are the 7 TJXOPT_ constants, hence the OR of a subset of either
\* determines the subset: no other subset has the same OR, and the subset
\* is the set of the constants whose bit is set in it.
C23_FlagsSingleBit ==
  OrDone =>
    /\ Cardinality(TJFLAGS) = 8 /\ Cardinality(TJXOPTS) = 7
    /\ \A c \in Constants : SingleBit(c)
    /\ \A T \in SUBSET Constants : OrAll(T) = tjRet.value => T = tjCall.chosen
    /\ {c \in Constants : HasBit(tjRet.value, c)} = tjCall.chosen

\* TJFLAG_NOREALLOC | TJFLAG_FASTDCT | TJFLAG_BOTTOMUP was formed: 3074
C23_Witness ==
  /\ OrDone
  /\ tjCall.chosen = {TJFLAG_NOREALLOC, TJFLAG_FASTDCT, TJFLAG_BOTTOMUP}
  /\ tjRet.value = 3074

\* C24: parse_proc_cpuinfo is only ever called with a size 1024 * 2^k,
\* 0 <= k <= 10, the sizes of one call of jpeg_simd_cpu_support strictly
\* increasing from 1024 by doubling; no buffer larger than 1 MiB is
\* allocated; and a call whose attempts all return FALSE tries a buffer of
\* exactly 1 MiB before it returns.
C24_SizesTried ==
  /\ Len(tried) <= 11
  /\ \A i \in 1..Len(tried) : tried[i] = 1024 * 2 ^ (i - 1)
  /\ \A i \in 1..(Len(tried) - 1) : tried[i] < tried[i + 1]
  /\ (pc = "parse" => Len(tried) <= 10 /\ bufsize = 1024 * 2 ^ Len(tried))
  /\ (buffer # NULL =>
        buffer <= 1024 * 1024 /\ Len(tried) > 0 /\ buffer = tried[Len(tried)])
  /\ (Probing /\ pc = "return" /\ ~parseRet =>
        Len(tried) = 11 /\ tried[11] = 1024 * 1024)

\* the attempt with a buffer of 1 MiB is reading the resource, after ten
\* attempts were abandoned
C24_Witness ==
  /\ pc = "fgets"
  /\ buffer = 1024 * 1024
  /\ Len(tried) = 11
  /\ abandoned = 10

(***************************************************************************)
(* Properties of termination (SpecTerm).                                   *)
(***************************************************************************)
\* the while loop of check_feature on cfLine evaluates its condition at
\* most once for each search start from the first one to the last one at
\* which the feature still fits, and once more
TurnsBounded ==
  (cfState # "unused" /\ strlen(cfFeature) > 0 /\ BeginsWithKey(cfLine)) =>
    LET start == SkipSpaces(cfLine, 16) IN
    MatchLoopTurns(cfLine, start, cfFeature)
      <= Max(0, strlen(cfLine) - strlen(cfFeature) - start + 1) + 1

\* the attempts that can follow the one with a buffer of bufsize bytes
AttemptsLeft == Cardinality({i \in 1..NSizes : Sizes[i] > bufsize})

\* more steps than one attempt takes on a resource of the lines it has
StepsOfAttempt == Len(env.file.lines) + 6

\* a bound on the steps a running call of jpeg_simd_cpu_support still
\* takes: 0 when no call is running
Variant ==
  IF pc = "idle" THEN 0
  ELSE IF pc = "return" THEN 1
  ELSE AttemptsLeft * StepsOfAttempt
       + (IF pc = "loop" THEN 2
          ELSE IF pc = "fgets" THEN 3 + Len(env.file.lines) - fd.ln
          ELSE IF pc = "fopen" THEN StepsOfAttempt - 2
          ELSE StepsOfAttempt - 1)

\* C26: jpeg_simd_cpu_support always terminates: a call makes at most 11
\* read attempts, with buffers of 1024 to 1048576 bytes, and then returns,
\* every step of a running call lowering a bound on the steps that remain;
\* the match loop of check_feature ends on every line, each rejected
\* occurrence advancing the search start by one.
C26_Step ==
  /\ Len(tried') <= 11
  /\ (pc # "idle" => Variant' < Variant /\ Variant' >= 0)
  /\ (pc = "loop" /\ pc' = "parse" => bufsize' > bufsize)
  /\ (cfState = "call" => cfState' = "done")
  /\ TurnsBounded
C26_Terminates == [][C26_Step]_vars

\* a call has returned after 11 attempts of which every one was abandoned
C26_Witness ==
  /\ pc = "idle" /\ called /\ ~envChanged
  /\ Len(tried) = 11
  /\ abandoned = 11

(***************************************************************************)
(* Properties of the resources of an attempt (Spec).                       *)
(***************************************************************************)
\* C27: on every return path of parse_proc_cpuinfo (allocation failure,
\* open failure, line too long, end of file) the buffer the attempt
\* allocated has been freed exactly once and the stream it opened closed
\* exactly once; at any time at most one buffer and at most one open
\* stream exist, and none once jpeg_simd_cpu_support has returned.
C27_ResourcesReleased ==
  \* the buffers the attempts of the call allocated, the environment being
  \* the one of the call
  LET allocs == Cardinality(ReadAttempts)
      sameEnv == pc # "idle" \/ ~envChanged
  IN  /\ (sameEnv => allocs - frees = (IF buffer # NULL THEN 1 ELSE 0))
      /\ opens - closes = (IF fd.open THEN 1 ELSE 0)
      /\ (fd.open => buffer # NULL)
      /\ (pc \in {"loop", "return", "idle"} =>
            /\ buffer = NULL /\ ~fd.open
            /\ closes = opens
            /\ (sameEnv => frees = allocs))

\* an attempt was abandoned at a line that did not fit, a later one
\* reached the end of the resource: two buffers freed, two streams closed
C27_Witness ==
  /\ pc = "loop" /\ parseRet
  /\ abandoned = 1
  /\ frees = 2 /\ closes = 2

\* C28: a failed allocation is handled like a buffer that is too small:
\* parse_proc_cpuinfo returns FALSE with the mask 0 without opening the
\* resource, and the caller doubles bufsize and tries again while bufsize
\* is within the limit; when the allocation fails at every size up to
\* 1 MiB, jpeg_simd_cpu_support returns 0.
C28_Step ==
  /\ (pc = "parse" /\ ~malloc(env, bufsize) =>
        /\ pc' = "loop" /\ parseRet' = FALSE
        /\ simd_support' = {}
        /\ buffer' = NULL /\ ~fd'.open
        /\ opens' = opens /\ frees' = frees /\ closes' = closes)
  /\ (pc = "loop" /\ ~malloc(env, bufsize) =>
        /\ bufsize' = 2 * bufsize
        /\ pc' = IF bufsize < 1024 * 1024 THEN "parse" ELSE "return")
  /\ (pc = "return" /\ Probing /\ ReadAttempts = {} =>
        /\ tried = Sizes
        /\ simd_support = {} /\ opens = 0
        /\ result' = {})
C28_AllocFailureRetried == [][C28_Step]_vars

\* a call is about to return 0 after malloc failed at all 11 sizes, the
\* call before it having found the capability
C28_Witness ==
  /\ pc = "return" /\ Probing
  /\ Len(tried) = 11 /\ ReadAttempts = {}
  /\ simd_support = {}
  /\ called /\ result = {JSIMD_MMI}

\* line i of the resource as fgets stores it when it fits the buffer
StoredLine(i) == FileLine(env.file, i)

\* C29: within an attempt that reads the resource to its end (the resource
\* opened, the buffer allocated, every line fitting) the mask starts at 0,
\* a line only adds to it, and the mask the attempt returns contains
\* JSIMD_MMI exactly when at least one line satisfies check_feature for
\* "loongson-mmi", wherever in the resource that line is.
C29_Step ==
  /\ (pc = "fopen" /\ pc' = "fgets" => simd_support' = {})
  /\ (pc = "fgets" => simd_support \subseteq simd_support')
  /\ (pc = "fgets" /\ pc' = "loop" /\ parseRet' =>
        /\ simd_support' \in Masks
        /\ JSIMD_MMI \in simd_support' <=>
             \E i \in 1..Len(env.file.lines) :
                check_feature(StoredLine(i), Lit(LoongsonMMI)))
C29_MaskIsOrOfLines == [][C29_Step]_vars

\* an attempt read a matching line and then another line to the end of the
\* resource and returned TRUE with the capability
C29_Witness ==
  /\ pc = "loop" /\ parseRet
  /\ Len(env.file.lines) = 2
  /\ env.file.lines[1] = MatchLine
  /\ env.file.lines[2] = PlainLine
  /\ closes = 1
  /\ simd_support = {JSIMD_MMI}

\* the number of characters of the last line of the resource
LastLineLen ==
  LET s == env.file.lines[Len(env.file.lines)] IN Len(s.text) + s.pad

\* an attempt is about to read the last line of the resource, which has no
\* trailing newline
AtUnterminatedLastLine ==
  /\ pc = "fgets"
  /\ Len(env.file.lines) >= 1
  /\ ~env.file.finalNL
  /\ fd.ln = Len(env.file.lines) - 1
  /\ fd.off = 0

\* C30: a final line with no trailing newline that fits the buffer (at
\* most bufsize - 1 characters) is not treated as a buffer that is too
\* small: the attempt checks the line, and returns TRUE at the end of the
\* resource, without a retry.
C30_Step ==
  /\ (AtUnterminatedLastLine /\ LastLineLen <= bufsize - 1 =>
        /\ pc' = "fgets"
        /\ abandoned' = abandoned
        /\ simd_support' =
             MaskAfterLine(simd_support, StoredLine(Len(env.file.lines))))
  /\ (pc = "fgets" /\ fd.ln = Len(env.file.lines) =>
        pc' = "loop" /\ parseRet' = TRUE)
C30_UnterminatedLastLineAccepted == [][C30_Step]_vars

\* the same for a final line of at most bufsize - 2 characters
C30_StepShorter ==
  /\ (AtUnterminatedLastLine /\ LastLineLen <= bufsize - 2 =>
        /\ pc' = "fgets"
        /\ abandoned' = abandoned
        /\ simd_support' =
             MaskAfterLine(simd_support, StoredLine(Len(env.file.lines))))
  /\ (pc = "fgets" /\ fd.ln = Len(env.file.lines) =>
        pc' = "loop" /\ parseRet' = TRUE)
C30_ShorterLastLineAccepted == [][C30_StepShorter]_vars

=============================================================================
